---- MODULE Spec2Model ----
(***************************************************************************)
(* Kismet: Result containers, the exhaustive matcher, the fluent Box        *)
(* wrapper and the promise-based AsyncBox wrapper, modelled as a state      *)
(* machine over one Box chain or the AsyncBox chains a caller builds.       *)
(*                                                                         *)
(* A JavaScript object is a sequence of <<key, value>> pairs in insertion  *)
(* order.  A Result is the record the constructors ok/err build; the field *)
(* the variant does not have holds NoValue / NoError so that every Result  *)
(* has one shape.  A promise is a record with its state and the Result it  *)
(* is fulfilled with or the value it is rejected with.                     *)
(***************************************************************************)
EXTENDS Integers, Sequences, FiniteSets, TLC

\* ------------------------------------------------------------------ bounds
MaxVal == 2
MaxSteps == 2
MaxReuse == 1

\* ------------------------------------------------------------- input domains
\* Success values carried by a Box.
Values == 0..MaxVal

\* Tags of the domain errors used by the callbacks of a chain.
DomainTags == {"NotFound", "Unauthorized"}

\* Tags an error value can carry: the domain tags, the key of the success
\* entry of a handler table, and a key every object inherits.
Tags == DomainTags \cup {"ok", "toString"}

\* Payload records passed to the tagged constructors.
Props == { <<>>,
           << <<"id", "123">> >>,
           << <<"_tag", "Unauthorized">> >> }

\* The field a variant does not have.
NoValue == -1
NoError == <<>>

\* -------------------------------------------------------------- JS objects
HasOwn(obj, key) == \E i \in 1..Len(obj) : obj[i][1] = key

Get(obj, key) ==
  IF HasOwn(obj, key)
  THEN obj[CHOOSE i \in 1..Len(obj) : obj[i][1] = key][2]
  ELSE "undefined"

\* obj with key set to value: an existing key keeps its position.
SetProp(obj, key, value) ==
  IF HasOwn(obj, key)
  THEN [i \in 1..Len(obj) |-> IF obj[i][1] = key THEN <<key, value>> ELSE obj[i]]
  ELSE Append(obj, <<key, value>>)

\* { ...obj, ...props }
RECURSIVE Spread(_, _)
Spread(obj, props) ==
  IF props = <<>> THEN obj
  ELSE Spread(SetProp(obj, Head(props)[1], Head(props)[2]), Tail(props))

\* JSON.stringify of a property value: a string is quoted; a thrown value
\* kept as a cause is written as the expression that made it, and an Error
\* or an object without a prototype has no enumerable property of its own.
JSONvalue(v) ==
  CASE v = "new Error(\"boom\")"  -> "{}"
    [] v = "Object.create(null)" -> "{}"
    [] v = "\"oops\""            -> v
    [] OTHER                     -> "\"" \o v \o "\""

\* JSON.stringify of an object.
RECURSIVE JSONfields(_)
JSONfields(obj) ==
  IF obj = <<>> THEN ""
  ELSE "\"" \o Head(obj)[1] \o "\":" \o JSONvalue(Head(obj)[2])
       \o (IF Tail(obj) = <<>> THEN "" ELSE "," \o JSONfields(Tail(obj)))

JSONstringify(obj) == "{" \o JSONfields(obj) \o "}"

\* --------------------------------------------------------------- result.ts
ok(value) == [_tag |-> "Ok", value |-> value, error |-> NoError]

err(error) == [_tag |-> "Err", value |-> NoValue, error |-> error]

\* Mutant: a Success is recognised by a truthy value.
isOk_truthy(result) == result._tag = "Ok" /\ result.value # 0

isOk(result) == result._tag = "Ok"

isErr(result) == result._tag = "Err"

\* error._tag
TagOf(error) == Get(error, "_tag")

\* ---------------------------------------------------------- Box constructors
Box_ok(value) == ok(value)

Box_err(error) == err(error)

\* Box.err({ _tag: tag, ...props })
Box_fail(tag, props) == Box_err(Spread(<< <<"_tag", tag>> >>, props))

\* Error values handed to Box.err directly.
Errors == { Spread(<< <<"_tag", t>> >>, p) : t \in Tags, p \in {<<>>, << <<"id", "123">> >>} }

\* ------------------------------------------------------------ user callbacks
\* What a callback was called with: a success value, an error, or (onError)
\* the value a promise was rejected with.
ArgV(value) == [value |-> value, error |-> NoError, raised |-> ""]

ArgE(error) == [value |-> NoValue, error |-> error, raised |-> ""]

ArgX(raised) == [value |-> NoValue, error |-> NoError, raised |-> raised]

Call(name, arg) == [fn |-> name, arg |-> arg]

\* map callbacks: x => x + 1 (within the value domain) and () => 0.
MapFns == {"inc", "zero"}

ApplyMapFn(fn, v) == IF fn = "inc" THEN (v + 1) % (MaxVal + 1) ELSE 0

\* flatMap callbacks, each returning a Box:
\*   okInc        x => Box.ok(x + 1)
\*   fail(t)      () => Box.fail(t)
\*   check(t)     x => x === 0 ? Box.fail(t) : Box.ok(x)
FlatFns == {[kind |-> "okInc", tag |-> ""]}
           \cup {[kind |-> k, tag |-> t] : k \in {"fail", "check"}, t \in DomainTags}

CallFlatFn(cb, v) ==
  CASE cb.kind = "okInc" -> Box_ok((v + 1) % (MaxVal + 1))
    [] cb.kind = "fail"  -> Box_fail(cb.tag, <<>>)
    [] OTHER             -> IF v = 0 THEN Box_fail(cb.tag, <<>>) ELSE Box_ok(v)

\* catchTag / catchAll handlers, each returning a Box:
\*   recover      () => Box.ok(0)
\*   fail(t)      () => Box.fail(t)
Handlers == {[kind |-> "recover", tag |-> ""]}
            \cup {[kind |-> "fail", tag |-> t] : t \in DomainTags}

CallHandler(h, error) ==
  IF h.kind = "recover" THEN Box_ok(0) ELSE Box_fail(h.tag, <<>>)

\* The error union F of the Box a callback returns, as its signature states it.
ErrorsOf(cb) == IF cb.tag = "" THEN {} ELSE {cb.tag}

NoFn == [kind |-> "", tag |-> ""]

\* ------------------------------------------------------------- Box methods
\* Each method gives the Result of the Box it returns, the callbacks it
\* invoked, in order, whether the Box it returns is the receiver itself
\* (`return this`) rather than a Box made by `new Box` or by a callback, and
\* the Result the receiver holds in this.result when the method returns.
Returned(result, cs, this, receiver) ==
  [res |-> result, calls |-> cs, self |-> this, recv |-> receiver]

\* mapErr callbacks:
\*   retag        e => ({ ...e, _tag: "Unauthorized" })
\*   strip        e => ({ _tag: e._tag })
MapErrFns == {"retag", "strip"}

ApplyMapErrFn(fn, e) ==
  IF fn = "retag" THEN Spread(e, << <<"_tag", "Unauthorized">> >>)
  ELSE << <<"_tag", TagOf(e)>> >>

\* Mutant: map transforms the Result in place and returns the receiver.
Box_map_inPlace(result, fn) ==
  IF isOk(result)
  THEN Returned(ok(ApplyMapFn(fn, result.value)),
                << Call("fn", ArgV(result.value)) >>, TRUE,
                ok(ApplyMapFn(fn, result.value)))
  ELSE Returned(result, <<>>, TRUE, result)

\* No method assigns this.result (a private readonly field): every method
\* leaves in the receiver the Result it found there.
Box_map(result, fn) ==
  IF isOk(result)
  THEN Returned(ok(ApplyMapFn(fn, result.value)),
                << Call("fn", ArgV(result.value)) >>, FALSE, result)
  ELSE Returned(result, <<>>, FALSE, result)

Box_mapErr(result, fn) ==
  IF isErr(result)
  THEN Returned(err(ApplyMapErrFn(fn, result.error)),
                << Call("fn", ArgE(result.error)) >>, FALSE, result)
  ELSE Returned(result, <<>>, FALSE, result)

Box_flatMap(result, fn) ==
  IF isOk(result)
  THEN Returned(CallFlatFn(fn, result.value),
                << Call("fn", ArgV(result.value)) >>, FALSE, result)
  ELSE Returned(result, <<>>, TRUE, result)

\* Mutant: the tag is not compared.
Box_catchTag_anyTag(result, tag, handler) ==
  IF isErr(result)
  THEN Returned(CallHandler(handler, result.error),
                << Call("handler", ArgE(result.error)) >>, FALSE, result)
  ELSE Returned(result, <<>>, TRUE, result)

Box_catchTag(result, tag, handler) ==
  IF isErr(result) /\ TagOf(result.error) = tag
  THEN Returned(CallHandler(handler, result.error),
                << Call("handler", ArgE(result.error)) >>, FALSE, result)
  ELSE Returned(result, <<>>, TRUE, result)

Box_catchAll(result, handler) ==
  IF isErr(result)
  THEN Returned(CallHandler(handler, result.error),
                << Call("handler", ArgE(result.error)) >>, FALSE, result)
  ELSE Returned(result, <<>>, TRUE, result)

\* Mutant: every Failure takes the fallback.
Box_orElseTag_anyTag(result, tag, fallback) ==
  IF isErr(result)
  THEN Returned(Box_ok(fallback), <<>>, FALSE, result)
  ELSE Returned(result, <<>>, TRUE, result)

Box_orElseTag(result, tag, fallback) ==
  IF isErr(result) /\ TagOf(result.error) = tag
  THEN Returned(Box_ok(fallback), <<>>, FALSE, result)
  ELSE Returned(result, <<>>, TRUE, result)

\* Mutant: toResult gives a Success whatever the Box holds.
Box_toResult_okOnly(result) == ok(result.value)

\* Box.toResult
Box_toResult(result) == result

\* ------------------------------------------------------------ outcomes
\* What a terminal operation did: returned a plain value (by = ""), returned
\* what the handler `by` returned for `arg`, returned a string, or threw an
\* Error with message `str`.
NoArg == [value |-> NoValue, error |-> NoError, raised |-> ""]

NoOutcome == [kind |-> "none", by |-> "", arg |-> NoArg, str |-> ""]

ReturnValue(v) == [kind |-> "return", by |-> "", arg |-> ArgV(v), str |-> ""]

ReturnOf(name, arg) == [kind |-> "return", by |-> name, arg |-> arg, str |-> ""]

ReturnString(name, arg, s) == [kind |-> "return", by |-> name, arg |-> arg, str |-> s]

Throw(message) == [kind |-> "throw", by |-> "", arg |-> NoArg, str |-> message]

\* A Result returned as it is (toResult, run).
ReturnResult(result) ==
  [kind |-> "return", by |-> "",
   arg |-> [value |-> result.value, error |-> result.error, raised |-> ""],
   str |-> result._tag]

\* Mutant: the error is interpolated without JSON.stringify.
Box_unwrap_unserialized(result) ==
  IF isOk(result)
  THEN ReturnValue(result.value)
  ELSE Throw("Unwrap called on Err: [object Object]")

\* Box.unwrap
Box_unwrap(result) ==
  IF isOk(result)
  THEN ReturnValue(result.value)
  ELSE Throw("Unwrap called on Err: " \o JSONstringify(result.error))

\* Box.unwrapOr
Box_unwrapOr(result, defaultValue) ==
  IF isOk(result) THEN ReturnValue(result.value) ELSE ReturnValue(defaultValue)

\* --------------------------------------------------------------- matcher.ts
\* A handler table is the set of keys it has a handler under; the handler
\* under key k is named k.  Every table has the success entry.
Configs == { c \cup {"ok"} : c \in SUBSET Tags }

\* Keys every object literal inherits from Object.prototype.
ObjectPrototypeKeys == {"toString"}

\* Whether an object literal with the keys c type-checks as
\* MatchConfig<T, E, R>, for E the union of the errors tagged `union` and
\* handlers that return strings (R = string): an object literal may have no
\* property but `ok` and the tags of E; `ok` and every tag of E are required
\* properties, and a required property the literal lacks is looked up among
\* the members of the global Object interface, whose toString(): string is
\* assignable to (error: E) => string.
MatchConfig(c, union) ==
  /\ "ok" \in c
  /\ c \subseteq union \cup {"ok"}
  /\ \A tag \in union : tag \in c \/ tag \in ObjectPrototypeKeys

\* config[key]: an own property, else an inherited one, else undefined.
Lookup(config, key) ==
  IF key \in config THEN [kind |-> "own", name |-> key]
  ELSE IF key \in ObjectPrototypeKeys
       THEN [kind |-> "inherited", name |-> "Object.prototype." \o key]
       ELSE [kind |-> "undefined", name |-> ""]

\* Mutant: the handler is called twice.
Invoke_twice(handler, arg) ==
  [out |-> ReturnOf(handler.name, arg),
   calls |-> << Call(handler.name, arg), Call(handler.name, arg) >>]

\* handler(error): a registered handler returns its own value; the inherited
\* Object.prototype.toString, called without a receiver, returns a string.
Invoke(handler, arg) ==
  IF handler.kind = "own"
  THEN [out |-> ReturnOf(handler.name, arg), calls |-> << Call(handler.name, arg) >>]
  ELSE [out |-> ReturnString(handler.name, arg, "[object Undefined]"),
        calls |-> << Call(handler.name, arg) >>]

\* Mutant: the test of the looked-up handler is inverted.
matchExhaustive_inverted(result, config) ==
  IF isOk(result)
  THEN Invoke(Lookup(config, "ok"), ArgV(result.value))
  ELSE LET handler == Lookup(config, TagOf(result.error)) IN
       IF handler.kind # "undefined"
       THEN [out |-> Throw("Unhandled error tag: " \o TagOf(result.error)),
             calls |-> <<>>]
       ELSE Invoke(handler, ArgE(result.error))

matchExhaustive(result, config) ==
  IF isOk(result)
  THEN Invoke(Lookup(config, "ok"), ArgV(result.value))
  ELSE LET handler == Lookup(config, TagOf(result.error)) IN
       IF handler.kind = "undefined"
       THEN [out |-> Throw("Unhandled error tag: " \o TagOf(result.error)),
             calls |-> <<>>]
       ELSE Invoke(handler, ArgE(result.error))

\* Box.matchExhaustive
Box_matchExhaustive(result, config) == matchExhaustive(result, config)

\* Box.match: handlers.ok(value) or handlers.err(error)
Box_match(result) ==
  IF isOk(result)
  THEN [out |-> ReturnOf("ok", ArgV(result.value)),
        calls |-> << Call("ok", ArgV(result.value)) >>]
  ELSE [out |-> ReturnOf("err", ArgE(result.error)),
        calls |-> << Call("err", ArgE(result.error)) >>]

\* ---------------------------------------------------------------- AsyncBox
\* The promise an AsyncBox holds: pending, or fulfilled with a Result.
NoResult == [_tag |-> "None", value |-> NoValue, error |-> NoError]

Fulfilled(result) == [st |-> "fulfilled", res |-> result, reason |-> ""]

\* new AsyncBox(Promise.resolve(ok(value)))
AsyncBox_ok(value) == Fulfilled(ok(value))

\* new AsyncBox(Promise.resolve(err(error)))
AsyncBox_err(error) == Fulfilled(err(error))

\* AsyncBox.err({ _tag: tag, ...props })
AsyncBox_fail(tag, props) == AsyncBox_err(Spread(<< <<"_tag", tag>> >>, props))

\* The callbacks of an AsyncBox chain: the same functions as for Box, each
\* returning an AsyncBox.
AsyncFlatFns == {[kind |-> "okInc", tag |-> ""],
                 [kind |-> "fail", tag |-> "NotFound"],
                 [kind |-> "check", tag |-> "Unauthorized"]}

AsyncCallFlatFn(cb, v) ==
  CASE cb.kind = "okInc" -> AsyncBox_ok((v + 1) % (MaxVal + 1))
    [] cb.kind = "fail"  -> AsyncBox_fail(cb.tag, <<>>)
    [] OTHER             -> IF v = 0 THEN AsyncBox_fail(cb.tag, <<>>) ELSE AsyncBox_ok(v)

AsyncHandlers == {[kind |-> "recover", tag |-> ""],
                  [kind |-> "fail", tag |-> "Unauthorized"]}

AsyncCallHandler(h, error) ==
  IF h.kind = "recover" THEN AsyncBox_ok(0) ELSE AsyncBox_fail(h.tag, <<>>)

\* Values a function can throw or a promise can be rejected with, written as
\* the expressions that make them.
Raised == {"new Error(\"boom\")", "\"oops\"", "Object.create(null)"}

\* cause instanceof Error
InstanceofError(cause) == cause = "new Error(\"boom\")"

\* cause.message of an Error
MessageOf(cause) == IF cause = "new Error(\"boom\")" THEN "boom" ELSE "undefined"

\* String(cause) throws a TypeError for an object that cannot be converted to
\* a primitive, such as one without a prototype.
StringThrows(cause) == cause = "Object.create(null)"

String(cause) ==
  CASE cause = "\"oops\""            -> "oops"
    [] cause = "new Error(\"boom\")" -> "Error: boom"
    [] OTHER                         -> ""

\* What a call of an onError function did: returned an error or threw.
Returns(error) == [kind |-> "return", error |-> error, raised |-> ""]

Throws(raised) == [kind |-> "throw", error |-> NoError, raised |-> raised]

\* unknownError(cause)
unknownError(cause) ==
  IF InstanceofError(cause)
  THEN Returns(<< <<"_tag", "UnknownError">>, <<"cause", cause>>,
                  <<"message", MessageOf(cause)>> >>)
  ELSE IF StringThrows(cause)
       THEN Throws("TypeError: Cannot convert object to primitive value")
       ELSE Returns(<< <<"_tag", "UnknownError">>, <<"cause", cause>>,
                       <<"message", String(cause)>> >>)

\* onError functions:
\*   unknownError
\*   tagged       (e) => ({ _tag: "NotFound", cause: e })
\*   rethrow      (e) => { throw e }
\* Those handed to fromPromise and, as `catch`, to wrap:
OnErrors == {"tagged"}

CallOnError(name, raised) ==
  CASE name = "unknownError" -> unknownError(raised)
    [] name = "rethrow"      -> Throws(raised)
    [] OTHER -> Returns(<< <<"_tag", "NotFound">>, <<"cause", raised>> >>)

\* An onError function as a callback, with the tag of the errors it returns.
OnErrorFn(name) ==
  [kind |-> name,
   tag |-> CASE name = "tagged"       -> "NotFound"
             [] name = "unknownError" -> "UnknownError"
             [] OTHER                 -> ""]

\* What a promise or a function given to a constructor does: the promise is
\* fulfilled with value or rejected with raised; the function returns such a
\* promise or throws raised before it returns one.
NoWork == [kind |-> "", value |-> NoValue, raised |-> ""]

Resolves(value) == [kind |-> "resolves", value |-> value, raised |-> ""]

RejectsWith(raised) == [kind |-> "rejects", value |-> NoValue, raised |-> raised]

ThrowsSync(raised) == [kind |-> "throws", value |-> NoValue, raised |-> raised]

\* Functions handed to Box.from: one that returns value, one that throws.
FromFns == {[kind |-> "returns", value |-> v, raised |-> ""] : v \in Values}
           \cup {ThrowsSync(x) : x \in Raised}

\* Box.from(fn, onError): try { Box.ok(fn()) } catch (e) { Box.err(onError(e)) };
\* what onError throws leaves Box.from.
Box_from(fn, onError) ==
  IF fn.kind = "returns"
  THEN [thrown |-> FALSE, raised |-> "", res |-> Box_ok(fn.value),
        calls |-> << Call("fn", NoArg) >>]
  ELSE LET e == CallOnError(onError, fn.raised) IN
       [thrown |-> e.kind = "throw", raised |-> e.raised,
        res |-> IF e.kind = "return" THEN Box_err(e.error) ELSE NoResult,
        calls |-> << Call("fn", NoArg), Call("onError", ArgX(fn.raised)) >>]

\* new Promise(() => {}): a promise that is never settled.
Never == [kind |-> "never", value |-> NoValue, raised |-> ""]

\* Mutant: every promise settles.
Settles_always(work) == TRUE

\* Whether the promise is ever fulfilled or rejected.
Settles(work) == work.kind \in {"resolves", "rejects"}

\* Promises handed to fromPromise.
Works == {Resolves(v) : v \in Values} \cup {RejectsWith(x) : x \in Raised} \cup {Never}

\* Functions handed to wrap, as fn or as `try`.
WrapFns == Works \cup {ThrowsSync("new Error(\"boom\")")}

\* Arguments of wrap: a function, or { try, catch }.
WrapArgs ==
  {[form |-> "function", try |-> fn, catch |-> ""] : fn \in WrapFns}
  \cup {[form |-> "config", try |-> fn, catch |-> c] : fn \in WrapFns, c \in OnErrors}

\* What the callback a method hands to this.promise.then did with the Result
\* r: the callbacks it invoked, and what it returned: a Result; the promise
\* (of a handler's AsyncBox, by run()); or, being an async function that
\* awaits the promise `cb` a side-effect callback returned, the Result it
\* returns once that promise is fulfilled.  An async callback returning a
\* Result while `cb` is "pending" has not awaited that promise.
Continuation(returns, result, promise, cs, cb) ==
  [returns |-> returns, res |-> result, promise |-> promise, calls |-> cs, cb |-> cb]

ReturnsResult(result, cs) ==
  Continuation("result", result, Fulfilled(NoResult), cs, "none")

ReturnsPromise(promise, cs) ==
  Continuation("promise", NoResult, promise, cs, "none")

\* `await x`: the async callback is suspended whatever x is; `cb` is the
\* state of x when x is a promise.
Awaits(result, cs, cb) ==
  Continuation("await", result, Fulfilled(NoResult), cs, cb)

\* What a side-effect callback returned is undefined ("none") or a promise.

\* Mutant: the callback runs whatever the Result is.
AsyncBox_map_always(r, fn) ==
  ReturnsResult(ok(ApplyMapFn(fn, r.value)), << Call("fn", ArgV(r.value)) >>)

AsyncBox_map(r, fn) ==
  IF isOk(r)
  THEN ReturnsResult(ok(ApplyMapFn(fn, r.value)), << Call("fn", ArgV(r.value)) >>)
  ELSE ReturnsResult(r, <<>>)

\* Mutant: the error is not transformed.
AsyncBox_mapErr_identity(r, fn) == ReturnsResult(r, <<>>)

AsyncBox_mapErr(r, fn) ==
  IF isErr(r)
  THEN ReturnsResult(err(ApplyMapErrFn(fn, r.error)), << Call("fn", ArgE(r.error)) >>)
  ELSE ReturnsResult(r, <<>>)

\* Side-effect callbacks handed to tap and tapErr:
\*   sync          (x) => { log.push(x) }
\*   async         async (x) => { await delay(); log.push(x) }
\*   asyncRejects  async (x) => { await delay(); throw new Error("tap failed") }
TapFns == {"sync", "async", "asyncRejects"}

\* Mutant: the promise the callback returns is not awaited.
AsyncBox_tap_noAwait(r, fn) ==
  IF isOk(r)
  THEN Continuation("result", r, Fulfilled(NoResult), << Call("fn", ArgV(r.value)) >>,
                    IF fn = "sync" THEN "none" ELSE "pending")
  ELSE ReturnsResult(r, <<>>)

AsyncBox_tap(r, fn) ==
  IF isOk(r)
  THEN Awaits(r, << Call("fn", ArgV(r.value)) >>,
              IF fn = "sync" THEN "none" ELSE "pending")
  ELSE ReturnsResult(r, <<>>)

AsyncBox_tapErr(r, fn) ==
  IF isErr(r)
  THEN Awaits(r, << Call("fn", ArgE(r.error)) >>,
              IF fn = "sync" THEN "none" ELSE "pending")
  ELSE ReturnsResult(r, <<>>)

\* Mutant: the callback runs on a Failure too.
AsyncBox_flatMap_always(r, fn) ==
  ReturnsPromise(AsyncCallFlatFn(fn, r.value), << Call("fn", ArgV(r.value)) >>)

AsyncBox_flatMap(r, fn) ==
  IF isOk(r)
  THEN ReturnsPromise(AsyncCallFlatFn(fn, r.value), << Call("fn", ArgV(r.value)) >>)
  ELSE ReturnsResult(r, <<>>)

AsyncBox_catchTag(r, tag, handler) ==
  IF isErr(r) /\ TagOf(r.error) = tag
  THEN ReturnsPromise(AsyncCallHandler(handler, r.error),
                      << Call("handler", ArgE(r.error)) >>)
  ELSE ReturnsResult(r, <<>>)

AsyncBox_catchAll(r, handler) ==
  IF isErr(r)
  THEN ReturnsPromise(AsyncCallHandler(handler, r.error),
                      << Call("handler", ArgE(r.error)) >>)
  ELSE ReturnsResult(r, <<>>)

\* AsyncBox.matchExhaustive, after `await this.promise`: the value the
\* returned promise is fulfilled with, or the Error it is rejected with.
AsyncBox_matchExhaustive(r, config) == matchExhaustive(r, config)

\* AsyncBox.match, after `await this.promise`
AsyncBox_match(r) ==
  IF isOk(r)
  THEN [out |-> ReturnOf("ok", ArgV(r.value)), calls |-> << Call("ok", ArgV(r.value)) >>]
  ELSE [out |-> ReturnOf("err", ArgE(r.error)), calls |-> << Call("err", ArgE(r.error)) >>]

\* AsyncBox.unwrapOr, after `await this.promise`
AsyncBox_unwrapOr(r, defaultValue) ==
  IF isOk(r) THEN ReturnValue(r.value) ELSE ReturnValue(defaultValue)

\* What the promise fromPromise builds, promise.then(ok).catch(e =>
\* err(onError(e))), settles to once `work` has settled: a Result, or the
\* value onError threw; and the callbacks invoked.
Rejected(raised) == [st |-> "rejected", res |-> NoResult, reason |-> raised]

\* Mutant: onError is called whatever the promise settled to.
AsyncBox_fromPromise_always(work, onError) ==
  LET e == CallOnError(onError, work.raised) IN
  [promise |-> IF e.kind = "return" THEN Fulfilled(err(e.error)) ELSE Rejected(e.raised),
   calls |-> << Call("onError", ArgX(work.raised)) >>]

AsyncBox_fromPromise(work, onError) ==
  IF work.kind = "resolves"
  THEN [promise |-> Fulfilled(ok(work.value)), calls |-> <<>>]
  ELSE LET e == CallOnError(onError, work.raised) IN
       [promise |-> IF e.kind = "return" THEN Fulfilled(err(e.error))
                    ELSE Rejected(e.raised),
        calls |-> << Call("onError", ArgX(work.raised)) >>]

\* AsyncBox.wrap(fnOrConfig): fnOrConfig() or fnOrConfig.try() is evaluated
\* as the argument of fromPromise, so the function is called during wrap,
\* and a function that throws before returning a promise makes wrap itself
\* throw.  onError is unknownError or fnOrConfig.catch.
AsyncBox_wrap(fnOrConfig) ==
  LET fn == fnOrConfig.try
      cs == << Call(IF fnOrConfig.form = "function" THEN "fnOrConfig" ELSE "try",
                    NoArg) >>
  IN IF fn.kind = "throws"
     THEN [thrown |-> TRUE, raised |-> fn.raised, work |-> NoWork, onError |-> "",
           calls |-> cs]
     ELSE [thrown |-> FALSE, raised |-> "", work |-> fn,
           onError |-> IF fnOrConfig.form = "function" THEN "unknownError"
                       ELSE fnOrConfig.catch,
           calls |-> cs]

\* ------------------------------------------------------------ state machine
VARIABLES
  mode,       \* "sync": a Box chain; "async": an AsyncBox chain
  box,        \* the Result held by the current Box of the chain; for an
              \* AsyncBox chain, by the Box chain built from the same Result
              \* with the same methods and callbacks
  E,          \* the error union of the current Box's type, as a set of tags
  typed,      \* every call so far satisfied its signature's constraints
  n,          \* wrappers made after the first: by a chain method or by
              \* wrapping a Result again
  op,         \* the last operation and its arguments
  prev,       \* the Result the last operation acted on
  calls,      \* the callbacks the last operation invoked, in order
  outcome,    \* what the terminal operation returned or threw
  flatOnly,   \* the chain so far consists of flatMap steps only
  firstFail,  \* the first Failure a flatMap-only chain produced
  inst,       \* the identity of the current Box instance
  prevInst,   \* the identity of the Box instance the last method was called on
  twin,       \* the Result of the Box a second, identical call returned
  recv,       \* the Result the Box the last method was called on holds now
  nodes,      \* the promises of the AsyncBox chain, in creation order
  tip,        \* the promise of the current AsyncBox of the chain
  alog,       \* the callbacks the AsyncBox chain invoked so far, in order
  slog,       \* the callbacks the Box chain of `box` invoked so far, in order
  reuse       \* times an earlier AsyncBox of the chain was taken up again

syncVars == <<E, typed, firstFail, inst, prevInst, twin, recv>>

asyncVars == <<nodes, tip, alog, slog, reuse>>

vars == <<mode, box, E, typed, n, op, prev, calls, outcome, flatOnly, firstFail,
          inst, prevInst, twin, recv, nodes, tip, alog, slog, reuse>>

Op(name, tag, fn, mapfn, val, cfg) ==
  [name |-> name, tag |-> tag, fn |-> fn, mapfn |-> mapfn, val |-> val, cfg |-> cfg]

\* ------------------------------------------------------------- the Box chain
\* A chain starts from Box.ok(value), Box.err(error), Box.fail(tag, props) or
\* Box.from(fn, onError).
\* The declared type may be wider than the inferred one (an annotation such as
\* `const box: Box<number, Errors> = Box.ok(42)`): `wide` are the extra tags.
Start(result, union, o, cs, out) ==
  /\ mode = "sync"
  /\ box = result
  /\ E = union
  /\ typed = TRUE
  /\ n = 0
  /\ op = o
  /\ prev = NoResult
  /\ calls = cs
  /\ outcome = out
  /\ flatOnly = TRUE
  /\ firstFail = IF isErr(result) THEN result ELSE NoResult
  /\ inst = 1
  /\ prevInst = 0
  /\ twin = NoResult
  /\ recv = NoResult
  /\ nodes = <<>>
  /\ tip = 0
  /\ alog = <<>>
  /\ slog = <<>>
  /\ reuse = 0

\* Box.from(fn, onError) has called fn and, if fn threw, onError; if onError
\* threw too, Box.from threw and there is no Box.
InitBox ==
  \/ \E wide \in SUBSET DomainTags :
       \/ \E v \in Values :
            Start(Box_ok(v), wide, Op("ok", "", NoFn, "", v, {}), <<>>, NoOutcome)
       \/ \E e \in Errors :
            Start(Box_err(e), {TagOf(e)} \cup wide,
                  Op("err", TagOf(e), NoFn, "", NoValue, {}), <<>>, NoOutcome)
       \/ \E t \in Tags, p \in Props :
            Start(Box_fail(t, p), {t} \cup wide,
                  Op("fail", t, NoFn, "", NoValue, {}), <<>>, NoOutcome)
  \/ \E fn \in FromFns, onError \in {"tagged", "rethrow"} :
       LET f == Box_from(fn, onError) IN
       Start(f.res, ErrorsOf(OnErrorFn(onError)),
             Op("from", fn.raised, OnErrorFn(onError), fn.kind, fn.value, {}),
             f.calls, IF f.thrown THEN Throw(f.raised) ELSE NoOutcome)

Running == n < MaxSteps /\ outcome.kind = "none"

\* A chain method: the Box it returns replaces the current one.
Chain(step, union, o, ok_typed) ==
  /\ mode = "sync"
  /\ Running
  /\ box' = step.res
  /\ calls' = step.calls
  /\ twin' = NoResult
  /\ recv' = step.recv
  /\ E' = union
  /\ typed' = (typed /\ ok_typed)
  /\ n' = n + 1
  /\ op' = o
  /\ prev' = box
  /\ prevInst' = inst
  /\ inst' = IF step.self THEN inst ELSE n + 2
  /\ flatOnly' = (flatOnly /\ o.name = "flatMap")
  /\ firstFail' = IF ~flatOnly' THEN NoResult
                  ELSE IF firstFail = NoResult /\ isErr(step.res) THEN step.res
                  ELSE firstFail
  /\ UNCHANGED <<mode, outcome>>
  /\ UNCHANGED asyncVars

Map ==
  \E f \in MapFns :
    Chain(Box_map(box, f), E,
          Op("map", "", NoFn, f, NoValue, {}), TRUE)

\* mapErr<F>: the union becomes the tags of what fn returns.
MapErr ==
  \E f \in MapErrFns :
    Chain(Box_mapErr(box, f), IF f = "retag" THEN {"Unauthorized"} ELSE E,
          Op("mapErr", "", NoFn, f, NoValue, {}), TRUE)

FlatMap ==
  \E f \in FlatFns :
    Chain(Box_flatMap(box, f), E \cup ErrorsOf(f),
          Op("flatMap", "", f, "", NoValue, {}), TRUE)

CatchTag ==
  \E t \in Tags, h \in Handlers :
    Chain(Box_catchTag(box, t, h), (E \ {t}) \cup ErrorsOf(h),
          Op("catchTag", t, h, "", NoValue, {}), t \in E)

CatchAll ==
  \E h \in Handlers :
    Chain(Box_catchAll(box, h), ErrorsOf(h),
          Op("catchAll", "", h, "", NoValue, {}), TRUE)

OrElseTag ==
  \E t \in Tags, v \in Values :
    Chain(Box_orElseTag(box, t, v), E \ {t},
          Op("orElseTag", t, NoFn, "", v, {}), t \in E)

\* The chain methods of Box.
ChainMethods == {"map", "mapErr", "flatMap", "catchTag", "catchAll", "orElseTag"}

\* The chain method call that `o` records, made on a Box holding result.
BoxCall(o, result) ==
  CASE o.name = "map"      -> Box_map(result, o.mapfn)
    [] o.name = "mapErr"   -> Box_mapErr(result, o.mapfn)
    [] o.name = "flatMap"  -> Box_flatMap(result, o.fn)
    [] o.name = "catchTag" -> Box_catchTag(result, o.tag, o.fn)
    [] o.name = "catchAll" -> Box_catchAll(result, o.fn)
    [] OTHER               -> Box_orElseTag(result, o.tag, o.val)

\* The caller makes the last chain method call once more, with the same
\* arguments, on the Box it made it on.
Again ==
  LET a == BoxCall(op, recv) IN
  /\ mode = "sync"
  /\ outcome.kind = "none"
  /\ op.name \in ChainMethods
  /\ twin = NoResult
  /\ twin' = a.res
  /\ recv' = a.recv
  /\ calls' = a.calls
  /\ UNCHANGED <<mode, box, E, typed, n, op, prev, outcome, flatOnly, firstFail,
                 inst, prevInst>>
  /\ UNCHANGED asyncVars

\* A terminal operation: the Box stays, the outcome is recorded.
Terminal(out, cs, o, ok_typed) ==
  /\ mode = "sync"
  /\ outcome.kind = "none"
  /\ outcome' = out
  /\ calls' = cs
  /\ op' = o
  /\ prev' = box
  /\ typed' = (typed /\ ok_typed)
  /\ UNCHANGED <<mode, box, E, n, flatOnly, firstFail, inst, prevInst, twin, recv>>
  /\ UNCHANGED asyncVars

Unwrap ==
  Terminal(Box_unwrap(box), <<>>, Op("unwrap", "", NoFn, "", NoValue, {}), E = {})

UnwrapOr ==
  \E d \in Values :
    Terminal(Box_unwrapOr(box, d), <<>>, Op("unwrapOr", "", NoFn, "", d, {}), TRUE)

Match ==
  LET m == Box_match(box) IN
  Terminal(m.out, m.calls, Op("match", "", NoFn, "", NoValue, {"ok", "err"}), TRUE)

\* The call type-checks when the handler table is a MatchConfig for E.
MatchFn ==
  \E c \in Configs :
    LET m == matchExhaustive(box, c) IN
    Terminal(m.out, m.calls, Op("matchExhaustive", "", NoFn, "", NoValue, c),
             MatchConfig(c, E))

BoxMatchExhaustive ==
  \E c \in Configs :
    LET m == Box_matchExhaustive(box, c) IN
    Terminal(m.out, m.calls, Op("Box.matchExhaustive", "", NoFn, "", NoValue, c),
             MatchConfig(c, E))

\* --------------------------------------------------------- the AsyncBox chain
\* A promise of the chain: the method that made it and its arguments, the
\* promise it was chained on (0: none; for a Result wrapped again, the
\* promise the Result was taken from), its state, the Result it is fulfilled
\* with or the value it is rejected with, the promise it waits for once its
\* callback returned one, the state of the promise a side-effect callback
\* returned, and (fromPromise) what the promise it was built from does.
Node(kind, tag, fn, mapfn, parent, promise) ==
  [kind |-> kind, tag |-> tag, fn |-> fn, mapfn |-> mapfn, parent |-> parent,
   st |-> promise.st, res |-> promise.res, reason |-> promise.reason,
   inner |-> 0, cb |-> "none", work |-> NoWork]

Pending == [st |-> "pending", res |-> NoResult, reason |-> ""]

\* Handler tables handed to AsyncBox.matchExhaustive.
AsyncConfigs == { {"ok"}, {"ok", "NotFound"}, {"ok", "NotFound", "Unauthorized"} }

\* An AsyncBox chain starts from AsyncBox.ok(value) or AsyncBox.err(error);
\* `box` starts from Box.ok(value) or Box.err(error).
InitAsyncFrom(results) ==
  /\ mode = "async"
  /\ \E r \in results :
       /\ nodes = << Node("source", "", NoFn, "", 0,
                          IF isOk(r) THEN AsyncBox_ok(r.value) ELSE AsyncBox_err(r.error)) >>
       /\ box = IF isOk(r) THEN Box_ok(r.value) ELSE Box_err(r.error)
  /\ tip = 1
  /\ alog = <<>>
  /\ slog = <<>>
  /\ reuse = 0
  /\ n = 0
  /\ op = Op("source", "", NoFn, "", NoValue, {})
  /\ prev = NoResult
  /\ calls = <<>>
  /\ outcome = NoOutcome
  /\ E = {}
  /\ typed = TRUE
  /\ flatOnly = TRUE
  /\ firstFail = NoResult
  /\ inst = 0
  /\ prevInst = 0
  /\ twin = NoResult
  /\ recv = NoResult

InitAsyncBox == InitAsyncFrom({ok(v) : v \in Values} \cup {err(e) : e \in Errors})

Init == InitBox \/ InitAsyncBox

\* Two Successes and two Failures.
InitFew ==
  InitAsyncFrom({ ok(0), ok(1),
                  err(<< <<"_tag", "NotFound">>, <<"id", "123">> >>),
                  err(<< <<"_tag", "Unauthorized">> >>) })

\* One Success and one Failure.
TwoResults == { ok(1), err(<< <<"_tag", "NotFound">>, <<"id", "123">> >>) }

InitTwo == InitAsyncFrom(TwoResults)

\* The Box method that corresponds to an AsyncBox method.
BoxStep(kind, result, tag, fn, mapfn) ==
  CASE kind = "map"      -> Box_map(result, mapfn)
    [] kind = "mapErr"   -> Box_mapErr(result, mapfn)
    [] kind = "flatMap"  -> Box_flatMap(result, fn)
    [] kind = "catchTag" -> Box_catchTag(result, tag, fn)
    [] kind = "catchAll" -> Box_catchAll(result, fn)
    [] OTHER             -> Returned(result, <<>>, TRUE, result)

\* A chain method called on the current AsyncBox: this.promise.then(callback)
\* makes a pending promise; the callback runs once this.promise is fulfilled.
Then(kind, tag, fn, mapfn) ==
  /\ mode = "async"
  /\ nodes # <<>>
  /\ Running
  /\ nodes' = Append(nodes, Node(kind, tag, fn, mapfn, tip, Pending))
  /\ tip' = Len(nodes) + 1
  /\ n' = n + 1
  /\ flatOnly' = (flatOnly /\ kind = "flatMap")
  /\ box' = BoxStep(kind, box, tag, fn, mapfn).res
  /\ slog' = slog \o BoxStep(kind, box, tag, fn, mapfn).calls
  /\ UNCHANGED <<mode, op, prev, calls, outcome, alog, reuse>>
  /\ UNCHANGED syncVars

AsyncMap == \E f \in MapFns : Then("map", "", NoFn, f)

AsyncMapErr == \E f \in MapErrFns : Then("mapErr", "", NoFn, f)

AsyncTap == \E f \in TapFns : Then("tap", "", NoFn, f)

AsyncTapErr == \E f \in TapFns : Then("tapErr", "", NoFn, f)

AsyncFlatMap == \E f \in AsyncFlatFns : Then("flatMap", "", f, "")

AsyncCatchTag == \E t \in DomainTags, h \in AsyncHandlers : Then("catchTag", t, h, "")

AsyncCatchAll == \E h \in AsyncHandlers : Then("catchAll", "", h, "")

Logged(i, cs) == [k \in 1..Len(cs) |-> [step |-> i, fn |-> cs[k].fn, arg |-> cs[k].arg]]

\* The callback of promise i runs: it returns a Result, which fulfils i; or
\* the promise of the AsyncBox a handler made, which i then waits for; or it
\* awaits the promise a side-effect callback returned.
Settle(i, d) ==
  /\ alog' = alog \o Logged(i, d.calls)
  /\ nodes' =
       CASE d.returns = "result" ->
              [nodes EXCEPT ![i].st = "fulfilled", ![i].res = d.res, ![i].cb = d.cb]
         [] d.returns = "await" ->
              [nodes EXCEPT ![i].st = "awaiting", ![i].cb = d.cb]
         [] OTHER ->
              Append([nodes EXCEPT ![i].st = "waiting", ![i].inner = Len(nodes) + 1],
                     Node("source", "", NoFn, "", 0, d.promise))
  /\ UNCHANGED <<mode, box, n, op, prev, calls, outcome, flatOnly, tip, slog, reuse>>
  /\ UNCHANGED syncVars

\* Mutant: the callback does not wait for the promise it was chained on.
Ready_early(i, kind) ==
  /\ mode = "async"
  /\ nodes[i].kind = kind
  /\ nodes[i].st = "pending"

\* Mutant: the callback runs again when its promise is already fulfilled.
Ready_again(i, kind) ==
  /\ mode = "async"
  /\ nodes[i].kind = kind
  /\ nodes[i].st \in {"pending", "fulfilled"}
  /\ nodes[nodes[i].parent].st = "fulfilled"

\* Mutant: the callbacks of a chain run only once a terminal method has been
\* called.
Ready_lazy(i, kind) ==
  /\ mode = "async"
  /\ nodes[i].kind = kind
  /\ nodes[i].st = "pending"
  /\ nodes[nodes[i].parent].st = "fulfilled"
  /\ outcome.kind # "none"

Ready(i, kind) ==
  /\ mode = "async"
  /\ nodes[i].kind = kind
  /\ nodes[i].st = "pending"
  /\ nodes[nodes[i].parent].st = "fulfilled"

MapCallback ==
  \E i \in 1..Len(nodes) :
    /\ Ready(i, "map")
    /\ Settle(i, AsyncBox_map(nodes[nodes[i].parent].res, nodes[i].mapfn))

MapErrCallback ==
  \E i \in 1..Len(nodes) :
    /\ Ready(i, "mapErr")
    /\ Settle(i, AsyncBox_mapErr(nodes[nodes[i].parent].res, nodes[i].mapfn))

TapCallback ==
  \E i \in 1..Len(nodes) :
    /\ Ready(i, "tap")
    /\ Settle(i, AsyncBox_tap(nodes[nodes[i].parent].res, nodes[i].mapfn))

TapErrCallback ==
  \E i \in 1..Len(nodes) :
    /\ Ready(i, "tapErr")
    /\ Settle(i, AsyncBox_tapErr(nodes[nodes[i].parent].res, nodes[i].mapfn))

FlatMapCallback ==
  \E i \in 1..Len(nodes) :
    /\ Ready(i, "flatMap")
    /\ Settle(i, AsyncBox_flatMap(nodes[nodes[i].parent].res, nodes[i].fn))

CatchTagCallback ==
  \E i \in 1..Len(nodes) :
    /\ Ready(i, "catchTag")
    /\ Settle(i, AsyncBox_catchTag(nodes[nodes[i].parent].res, nodes[i].tag, nodes[i].fn))

CatchAllCallback ==
  \E i \in 1..Len(nodes) :
    /\ Ready(i, "catchAll")
    /\ Settle(i, AsyncBox_catchAll(nodes[nodes[i].parent].res, nodes[i].fn))

\* Mutant: a promise whose callback returned a promise takes the Result of
\* whichever promise is fulfilled.
Adopt_any ==
  \E i \in 1..Len(nodes), k \in 1..Len(nodes) :
    /\ mode = "async"
    /\ nodes[i].st = "waiting"
    /\ nodes[k].st = "fulfilled"
    /\ nodes' = [nodes EXCEPT ![i].st = "fulfilled", ![i].res = nodes[k].res]
    /\ UNCHANGED <<mode, box, n, op, prev, calls, outcome, flatOnly, tip, alog, slog, reuse>>
    /\ UNCHANGED syncVars

\* Promise i, whose callback returned a promise, is fulfilled with the Result
\* of that promise once it is fulfilled.
Adopt ==
  \E i \in 1..Len(nodes) :
    /\ mode = "async"
    /\ nodes[i].st = "waiting"
    /\ nodes[nodes[i].inner].st = "fulfilled"
    /\ nodes' = [nodes EXCEPT ![i].st = "fulfilled", ![i].res = nodes[nodes[i].inner].res]
    /\ UNCHANGED <<mode, box, n, op, prev, calls, outcome, flatOnly, tip, alog, slog, reuse>>
    /\ UNCHANGED syncVars

\* The promise the side-effect callback of promise i returned settles.  The
\* async callback of tap / tapErr that awaits it resumes in a later job.
TapSettles ==
  \E i \in 1..Len(nodes) :
    /\ mode = "async"
    /\ nodes[i].cb = "pending"
    /\ nodes' = [nodes EXCEPT ![i].cb = "settled"]
    /\ UNCHANGED <<mode, box, n, op, prev, calls, outcome, flatOnly, tip, alog, slog, reuse>>
    /\ UNCHANGED syncVars

\* The async callback of tap / tapErr resumes after `await fn(...)`, what fn
\* returned being undefined or a settled promise: it returns the Result it
\* was given, or throws what the promise was rejected with.
TapResumes ==
  \E i \in 1..Len(nodes) :
    /\ mode = "async"
    /\ nodes[i].st = "awaiting"
    /\ nodes[i].cb \in {"none", "settled"}
    /\ nodes' =
         IF nodes[i].mapfn = "asyncRejects"
         THEN [nodes EXCEPT ![i].st = "rejected",
                            ![i].reason = "new Error(\"tap failed\")"]
         ELSE [nodes EXCEPT ![i].st = "fulfilled",
                            ![i].res = nodes[nodes[i].parent].res]
    /\ UNCHANGED <<mode, box, n, op, prev, calls, outcome, flatOnly, tip, alog, slog, reuse>>
    /\ UNCHANGED syncVars

\* then(callback) on a rejected promise: the callback is not called and the
\* promise then() made is rejected with the same value.
RejectionPropagates ==
  \E i \in 1..Len(nodes) :
    /\ mode = "async"
    /\ nodes[i].parent # 0
    /\ nodes[i].st = "pending"
    /\ nodes[nodes[i].parent].st = "rejected"
    /\ nodes' = [nodes EXCEPT ![i].st = "rejected",
                              ![i].reason = nodes[nodes[i].parent].reason]
    /\ UNCHANGED <<mode, box, n, op, prev, calls, outcome, flatOnly, tip, alog, slog, reuse>>
    /\ UNCHANGED syncVars

\* ------------------------------------------------- the AsyncBox constructors
\* The promise fromPromise builds from `work`.
WorkNode(work, onError) ==
  [Node("fromPromise", onError, NoFn, "", 0, Pending) EXCEPT !.work = work]

NoChain == mode = "async" /\ nodes = <<>> /\ outcome.kind = "none"

\* AsyncBox.fromPromise(promise, onError)
FromPromise ==
  \E work \in Works, onError \in OnErrors :
    /\ NoChain
    /\ nodes' = << WorkNode(work, onError) >>
    /\ tip' = 1
    /\ op' = Op("fromPromise", onError, NoFn, "", NoValue, {})
    /\ UNCHANGED <<mode, box, n, prev, calls, outcome, flatOnly, alog, slog, reuse>>
    /\ UNCHANGED syncVars

\* AsyncBox.wrap(fn) and AsyncBox.wrap({ try, catch })
Wrap ==
  \E a \in WrapArgs :
    LET w == AsyncBox_wrap(a)
        fn == a.try
    IN
    /\ NoChain
    /\ op' = Op("wrap", fn.raised,
                IF a.form = "function" THEN NoFn ELSE OnErrorFn(a.catch),
                fn.kind, fn.value, {})
    /\ IF w.thrown
       THEN /\ outcome' = Throw(w.raised)
            /\ UNCHANGED <<nodes, tip>>
       ELSE /\ nodes' = << WorkNode(w.work, w.onError) >>
            /\ tip' = 1
            /\ UNCHANGED outcome
    /\ calls' = w.calls
    /\ UNCHANGED <<mode, box, n, prev, flatOnly, alog, slog, reuse>>
    /\ UNCHANGED syncVars

\* `work` settles and the callbacks of then(ok).catch(...) run.
FromPromiseSettles ==
  \E i \in 1..Len(nodes) :
    /\ mode = "async"
    /\ nodes[i].kind = "fromPromise"
    /\ nodes[i].st = "pending"
    /\ Settles(nodes[i].work)
    /\ LET d == AsyncBox_fromPromise(nodes[i].work, nodes[i].tag) IN
         /\ nodes' = [nodes EXCEPT ![i].st = d.promise.st, ![i].res = d.promise.res,
                                   ![i].reason = d.promise.reason]
         /\ alog' = alog \o Logged(i, d.calls)
    /\ UNCHANGED <<mode, box, n, op, prev, calls, outcome, flatOnly, tip, slog, reuse>>
    /\ UNCHANGED syncVars

\* ---------------------------------------------- the AsyncBox terminal methods
\* A terminal method is called on the current AsyncBox: the async function
\* runs up to `await this.promise` and returns a pending promise.  run()
\* returns this.promise itself, which the caller awaits.
AsyncTerminal(o) ==
  /\ mode = "async"
  /\ nodes # <<>>
  /\ outcome.kind = "none"
  /\ outcome' = [outcome EXCEPT !.kind = "pending"]
  /\ op' = o
  /\ UNCHANGED <<mode, box, n, prev, calls, flatOnly>>
  /\ UNCHANGED syncVars
  /\ UNCHANGED asyncVars

AsyncMatchExhaustive ==
  \E c \in AsyncConfigs :
    AsyncTerminal(Op("AsyncBox.matchExhaustive", "", NoFn, "", NoValue, c))

AsyncMatch == AsyncTerminal(Op("AsyncBox.match", "", NoFn, "", NoValue, {"ok", "err"}))

\* AsyncBox.unwrapOr(0)
AsyncUnwrapOr ==
  \E d \in {0} : AsyncTerminal(Op("AsyncBox.unwrapOr", "", NoFn, "", d, {}))

AsyncRun == AsyncTerminal(Op("AsyncBox.run", "", NoFn, "", NoValue, {}))

\* this.promise is fulfilled: the async function resumes, and the promise it
\* returned is fulfilled with what it returns or rejected with what it throws.
Resume(name, out, cs) ==
  /\ mode = "async"
  /\ outcome.kind = "pending"
  /\ op.name = name
  /\ nodes[tip].st = "fulfilled"
  /\ outcome' = out
  /\ calls' = cs
  /\ prev' = nodes[tip].res
  /\ UNCHANGED <<mode, box, n, op, flatOnly>>
  /\ UNCHANGED syncVars
  /\ UNCHANGED asyncVars

MatchExhaustiveResume ==
  LET m == AsyncBox_matchExhaustive(nodes[tip].res, op.cfg) IN
  Resume("AsyncBox.matchExhaustive", m.out, m.calls)

MatchResume ==
  LET m == AsyncBox_match(nodes[tip].res) IN
  Resume("AsyncBox.match", m.out, m.calls)

UnwrapOrResume ==
  Resume("AsyncBox.unwrapOr", AsyncBox_unwrapOr(nodes[tip].res, op.val), <<>>)

RunResume ==
  Resume("AsyncBox.run", ReturnResult(nodes[tip].res), <<>>)

\* this.promise is rejected: `await this.promise` throws, and the promise the
\* terminal method returned is rejected with the same value.
AwaitRejects ==
  /\ mode = "async"
  /\ outcome.kind = "pending"
  /\ nodes[tip].st = "rejected"
  /\ outcome' = Throw(nodes[tip].reason)
  /\ calls' = <<>>
  /\ UNCHANGED <<mode, box, n, op, prev, flatOnly>>
  /\ UNCHANGED syncVars
  /\ UNCHANGED asyncVars

\* The promises of the AsyncBox chain itself (not those the handlers made).
Main == {i \in 1..Len(nodes) : i = 1 \/ nodes[i].kind # "source"}

\* The caller takes up an AsyncBox of the chain again, for another terminal
\* method or another chain.  The Box chain of `box` is followed no further.
Reuse ==
  \E i \in Main :
    /\ mode = "async"
    /\ outcome.kind \in {"none", "return", "throw"}
    /\ i # tip \/ outcome.kind # "none"
    /\ reuse < MaxReuse
    /\ reuse' = reuse + 1
    /\ tip' = i
    /\ op' = Op("reuse", "", NoFn, "", NoValue, {})
    /\ prev' = NoResult
    /\ outcome' = NoOutcome
    /\ calls' = <<>>
    /\ box' = NoResult
    /\ slog' = <<>>
    /\ UNCHANGED <<mode, n, flatOnly, nodes, alog>>
    /\ UNCHANGED syncVars

\* AsyncBox has no orElseTag member: the call reads undefined from the
\* instance and throws a TypeError.
AsyncOrElseTag ==
  \E t \in DomainTags :
    /\ mode = "async"
    /\ nodes # <<>>
    /\ Running
    /\ op' = Op("AsyncBox.orElseTag", t, NoFn, "", 0, {})
    /\ outcome' = Throw("TypeError: orElseTag is not a function")
    /\ calls' = <<>>
    /\ UNCHANGED <<mode, box, n, prev, flatOnly>>
    /\ UNCHANGED syncVars
    /\ UNCHANGED asyncVars

\* ------------------------------------------------------------ re-wrapping
\* Box.toResult
ToResult ==
  Terminal(ReturnResult(Box_toResult(box)), <<>>,
           Op("toResult", "", NoFn, "", NoValue, {}), TRUE)

\* The caller wraps the Result r that toResult() returned again:
\* isOk(r) ? Box.ok(r.value) : Box.err(r.error).  `prev` keeps the Result of
\* the Box that toResult() was called on.
BoxRewrap ==
  /\ mode = "sync"
  /\ op.name = "toResult"
  /\ outcome.kind = "return"
  /\ n < MaxSteps
  /\ box' = IF outcome.str = "Ok" THEN Box_ok(outcome.arg.value)
            ELSE Box_err(outcome.arg.error)
  /\ prev' = box
  /\ op' = Op("rewrap", "", NoFn, "", NoValue, {})
  /\ outcome' = NoOutcome
  /\ calls' = <<>>
  /\ n' = n + 1
  /\ prevInst' = inst
  /\ inst' = n + 2
  /\ UNCHANGED <<mode, E, typed, flatOnly, firstFail, twin, recv>>
  /\ UNCHANGED asyncVars

\* The caller wraps the Result r that `await box.run()` gave again:
\* isOk(r) ? AsyncBox.ok(r.value) : AsyncBox.err(r.error).  The new promise
\* keeps, as its parent, the promise run() returned.
AsyncRewrap ==
  /\ mode = "async"
  /\ op.name = "AsyncBox.run"
  /\ outcome.kind = "return"
  /\ outcome.str \in {"Ok", "Err"}
  /\ n < MaxSteps
  /\ nodes' = Append(nodes, Node("rewrap", "", NoFn, "", tip,
                                 IF outcome.str = "Ok" THEN AsyncBox_ok(outcome.arg.value)
                                 ELSE AsyncBox_err(outcome.arg.error)))
  /\ tip' = Len(nodes) + 1
  /\ prev' = nodes[tip].res
  /\ op' = Op("AsyncBox.rewrap", "", NoFn, "", NoValue, {})
  /\ outcome' = NoOutcome
  /\ calls' = <<>>
  /\ n' = n + 1
  /\ UNCHANGED <<mode, box, flatOnly, alog, slog, reuse>>
  /\ UNCHANGED syncVars

\* Box chains, and AsyncBox chains ended by matchExhaustive.
Next ==
  \/ Map
  \/ MapErr
  \/ FlatMap
  \/ CatchTag
  \/ CatchAll
  \/ OrElseTag
  \/ Unwrap
  \/ UnwrapOr
  \/ Match
  \/ MatchFn
  \/ BoxMatchExhaustive
  \/ AsyncMap
  \/ AsyncFlatMap
  \/ AsyncCatchTag
  \/ AsyncCatchAll
  \/ MapCallback
  \/ FlatMapCallback
  \/ CatchTagCallback
  \/ CatchAllCallback
  \/ Adopt
  \/ AsyncMatchExhaustive
  \/ MatchExhaustiveResume

Spec == Init /\ [][Next]_vars

\* AsyncBox chains of the methods Box has too, each next to the Box chain
\* built from the same Result with the same methods and callbacks.
NextEquiv ==
  \/ AsyncMap
  \/ AsyncMapErr
  \/ AsyncFlatMap
  \/ AsyncCatchTag
  \/ AsyncCatchAll
  \/ AsyncOrElseTag
  \/ MapCallback
  \/ MapErrCallback
  \/ FlatMapCallback
  \/ CatchTagCallback
  \/ CatchAllCallback
  \/ Adopt
  \/ AsyncMatchExhaustive
  \/ AsyncMatch
  \/ AsyncUnwrapOr
  \/ MatchExhaustiveResume
  \/ MatchResume
  \/ UnwrapOrResume

EquivSpec == InitFew /\ [][NextEquiv]_vars

\* No AsyncBox has been constructed yet.
InitNone ==
  /\ mode = "async"
  /\ nodes = <<>>
  /\ tip = 0
  /\ alog = <<>>
  /\ slog = <<>>
  /\ reuse = 0
  /\ n = 0
  /\ op = Op("none", "", NoFn, "", NoValue, {})
  /\ prev = NoResult
  /\ calls = <<>>
  /\ outcome = NoOutcome
  /\ box = NoResult
  /\ E = {}
  /\ typed = TRUE
  /\ flatOnly = TRUE
  /\ firstFail = NoResult
  /\ inst = 0
  /\ prevInst = 0
  /\ twin = NoResult
  /\ recv = NoResult

\* AsyncBoxes built by wrap and fromPromise.
NextWrap ==
  \/ FromPromise
  \/ Wrap
  \/ FromPromiseSettles
  \/ AsyncMap
  \/ AsyncTapErr
  \/ MapCallback
  \/ TapErrCallback
  \/ TapSettles
  \/ TapResumes
  \/ RejectionPropagates
  \/ AsyncRun
  \/ AsyncMatch
  \/ AsyncMatchExhaustive
  \/ AsyncUnwrapOr
  \/ RunResume
  \/ MatchResume
  \/ MatchExhaustiveResume
  \/ UnwrapOrResume
  \/ AwaitRejects

WrapSpec == InitNone /\ [][NextWrap]_vars

\* AsyncBox chains of every chain method.
NextChain ==
  \/ AsyncMap
  \/ AsyncMapErr
  \/ AsyncTap
  \/ AsyncTapErr
  \/ AsyncFlatMap
  \/ AsyncCatchTag
  \/ AsyncCatchAll
  \/ MapCallback
  \/ MapErrCallback
  \/ TapCallback
  \/ TapErrCallback
  \/ TapSettles
  \/ TapResumes
  \/ FlatMapCallback
  \/ CatchTagCallback
  \/ CatchAllCallback
  \/ Adopt
  \/ RejectionPropagates

ChainSpec == InitFew /\ [][NextChain]_vars

\* AsyncBox chains with side-effect steps, several terminal methods on one
\* AsyncBox and several chains derived from one AsyncBox.
NextReuse ==
  \/ AsyncTap
  \/ AsyncTapErr
  \/ TapCallback
  \/ TapErrCallback
  \/ TapSettles
  \/ TapResumes
  \/ RejectionPropagates
  \/ AsyncMatchExhaustive
  \/ AsyncMatch
  \/ AsyncUnwrapOr
  \/ AsyncRun
  \/ MatchExhaustiveResume
  \/ MatchResume
  \/ UnwrapOrResume
  \/ RunResume
  \/ AwaitRejects
  \/ Reuse

ReuseSpec == InitTwo /\ [][NextReuse]_vars

\* Box chains, and AsyncBox chains in which a method is called again on an
\* AsyncBox it was already called on.
NextTwin ==
  \/ Map
  \/ MapErr
  \/ FlatMap
  \/ CatchTag
  \/ CatchAll
  \/ OrElseTag
  \/ Again
  \/ AsyncMap
  \/ AsyncMapErr
  \/ AsyncFlatMap
  \/ AsyncCatchTag
  \/ AsyncCatchAll
  \/ MapCallback
  \/ MapErrCallback
  \/ FlatMapCallback
  \/ CatchTagCallback
  \/ CatchAllCallback
  \/ Adopt
  \/ (Running /\ Reuse)

TwinSpec == (InitBox \/ InitTwo) /\ [][NextTwin]_vars

\* Box and AsyncBox chains whose Result is taken out and wrapped again.
NextRound ==
  \/ Map
  \/ FlatMap
  \/ ToResult
  \/ BoxRewrap
  \/ AsyncMap
  \/ AsyncFlatMap
  \/ MapCallback
  \/ FlatMapCallback
  \/ Adopt
  \/ AsyncRun
  \/ RunResume
  \/ AsyncRewrap

RoundSpec == (InitBox \/ InitFew) /\ [][NextRound]_vars

\* AsyncBoxes built by wrap, with chains of tap and flatMap steps that the
\* caller ends by match, matchExhaustive or unwrapOr when it likes, or never.
NextLive ==
  \/ Wrap
  \/ AsyncTap
  \/ AsyncFlatMap
  \/ AsyncMatchExhaustive
  \/ AsyncMatch
  \/ AsyncUnwrapOr
  \/ FromPromiseSettles
  \/ TapCallback
  \/ TapSettles
  \/ TapResumes
  \/ FlatMapCallback
  \/ Adopt
  \/ RejectionPropagates
  \/ MatchExhaustiveResume
  \/ MatchResume
  \/ UnwrapOrResume
  \/ AwaitRejects

\* The steps the event loop takes by itself, it eventually takes: a settled
\* promise's callbacks run, a promise follows the promise its callback
\* returned, and an async function resumes once the promise it awaits has
\* settled.  Nothing makes the caller add a step or call a terminal method.
LiveSpec ==
  /\ InitNone
  /\ [][NextLive]_vars
  /\ WF_vars(FromPromiseSettles \/ TapCallback \/ TapSettles \/ TapResumes \/ FlatMapCallback
               \/ Adopt \/ RejectionPropagates \/ MatchExhaustiveResume
               \/ MatchResume \/ UnwrapOrResume \/ AwaitRejects)

\* AsyncBoxes built by wrap with chains on which no terminal method is ever
\* called; the steps the event loop takes by itself, it eventually takes.
NextEager ==
  \/ Wrap
  \/ AsyncMap
  \/ AsyncTap
  \/ AsyncFlatMap
  \/ AsyncCatchTag
  \/ AsyncCatchAll
  \/ FromPromiseSettles
  \/ MapCallback
  \/ TapCallback
  \/ TapSettles
  \/ TapResumes
  \/ FlatMapCallback
  \/ CatchTagCallback
  \/ CatchAllCallback
  \/ Adopt
  \/ RejectionPropagates

EagerSpec ==
  /\ InitNone
  /\ [][NextEager]_vars
  /\ WF_vars(FromPromiseSettles \/ MapCallback \/ TapCallback \/ TapSettles \/ TapResumes
               \/ FlatMapCallback \/ CatchTagCallback \/ CatchAllCallback
               \/ Adopt \/ RejectionPropagates)

\* Two AsyncBoxes constructed independently of each other: one by
\* AsyncBox.ok or AsyncBox.err, one by fromPromise from a promise that
\* rejects.
InitPair ==
  /\ mode = "async"
  /\ \E r \in TwoResults :
       nodes = << Node("source", "", NoFn, "", 0,
                       IF isOk(r) THEN AsyncBox_ok(r.value) ELSE AsyncBox_err(r.error)),
                  WorkNode(RejectsWith("\"oops\""), "tagged") >>
  /\ tip = 1
  /\ alog = <<>>
  /\ slog = <<>>
  /\ reuse = 0
  /\ n = 0
  /\ op = Op("source", "", NoFn, "", NoValue, {})
  /\ prev = NoResult
  /\ calls = <<>>
  /\ outcome = NoOutcome
  /\ box = NoResult
  /\ E = {}
  /\ typed = TRUE
  /\ flatOnly = TRUE
  /\ firstFail = NoResult
  /\ inst = 0
  /\ prevInst = 0
  /\ twin = NoResult
  /\ recv = NoResult

\* The caller chains steps on one AsyncBox, turns to the other and chains
\* steps on it, while the callbacks of both chains run in any order.
NextPair ==
  \/ AsyncFlatMap
  \/ AsyncCatchTag
  \/ (Running /\ Reuse)
  \/ FromPromiseSettles
  \/ FlatMapCallback
  \/ CatchTagCallback
  \/ Adopt

PairSpec == InitPair /\ [][NextPair]_vars

\* ------------------------------------------------------------------ claims
\* matchExhaustive, as a function or a method, has run to its end.
MatchDone ==
  /\ op.name \in {"matchExhaustive", "Box.matchExhaustive", "AsyncBox.matchExhaustive"}
  /\ outcome.kind \in {"return", "throw"}

\* The callbacks promise i of the AsyncBox chain invoked, in order.
CallsOf(i) == SelectSeq(alog, LAMBDA c : c.step = i)

\* C1: along every Box chain from Box.ok, Box.err or Box.fail, with the error
\* union tracked as the signatures of map, flatMap, catchTag, catchAll and
\* orElseTag state it, a Box holding a Failure holds an error whose tag is in
\* the tracked union.
C1_TrackedUnionHoldsTag ==
  (mode = "sync" /\ isErr(box)) => TagOf(box.error) \in E

\* C2: a well-typed chain whose tracked error union is empty holds a Success,
\* and unwrap() on it returns the contained value without throwing.
C2_EmptyUnionUnwraps ==
  /\ (mode = "sync" /\ box # NoResult /\ typed /\ E = {}) => isOk(box)
  /\ (mode = "sync" /\ typed /\ op.name = "unwrap") =>
       (isOk(prev) /\ outcome = ReturnValue(prev.value))

\* C3: for every Result of its error union E and every handler table with an
\* entry for "ok" and for every tag of E, matchExhaustive returns a value and
\* does not throw.
C3_Totality ==
  ( /\ op.name \in {"matchExhaustive", "Box.matchExhaustive"}
    /\ isErr(prev) => TagOf(prev.error) \in E
    /\ (E \cup {"ok"}) \subseteq op.cfg )
  => outcome.kind = "return"

C3_Witness ==
  /\ op.name = "Box.matchExhaustive"
  /\ isErr(prev)
  /\ TagOf(prev.error) \in E
  /\ E = {"NotFound", "Unauthorized"}
  /\ op.cfg = E \cup {"ok"}
  /\ outcome.kind = "return"

\* C4: for a Failure with tag T, matchExhaustive invokes the handler registered
\* under T exactly once with exactly that error, invokes no other handler, and
\* returns what that handler returned.
C4_Dispatch ==
  (MatchDone /\ isErr(prev) /\ TagOf(prev.error) \in op.cfg) =>
    /\ calls = << Call(TagOf(prev.error), ArgE(prev.error)) >>
    /\ outcome = ReturnOf(TagOf(prev.error), ArgE(prev.error))

C4_Witness ==
  /\ MatchDone
  /\ op.cfg = {"ok", "NotFound", "Unauthorized"}
  /\ prev = err(<< <<"_tag", "NotFound">>, <<"id", "123">> >>)
  /\ calls = << Call("NotFound", ArgE(prev.error)) >>

\* C5: for a Failure whose tag Z has no handler registered under Z,
\* matchExhaustive invokes no handler and raises an error whose message is
\* "Unhandled error tag: Z".
C5_UnhandledTagThrows ==
  (MatchDone /\ isErr(prev) /\ TagOf(prev.error) \notin op.cfg) =>
    /\ calls = <<>>
    /\ outcome = Throw("Unhandled error tag: " \o TagOf(prev.error))

\* C6: catchTag(tag, handler) on a Failure whose error's tag equals tag invokes
\* handler exactly once with that error, and the wrapper handler returns is
\* the result; on a Success or a Failure with another tag it invokes nothing
\* and the Result passes through unchanged.  For AsyncBox the same holds of
\* every catchTag promise whose callback has run.
C6_BoxCatchTag ==
  (mode = "sync" /\ op.name = "catchTag") =>
    IF isErr(prev) /\ TagOf(prev.error) = op.tag
    THEN /\ calls = << Call("handler", ArgE(prev.error)) >>
         /\ box = CallHandler(op.fn, prev.error)
    ELSE /\ calls = <<>>
         /\ box = prev

C6_AsyncBoxCatchTag ==
  \A i \in 1..Len(nodes) :
    nodes[i].kind = "catchTag" =>
      LET r == nodes[nodes[i].parent].res IN
      IF nodes[i].st = "pending" THEN CallsOf(i) = <<>>
      ELSE IF isErr(r) /\ TagOf(r.error) = nodes[i].tag
      THEN /\ CallsOf(i) = Logged(i, << Call("handler", ArgE(r.error)) >>)
           /\ nodes[i].inner # 0
           /\ nodes[i].st = "fulfilled" =>
                nodes[i].res = AsyncCallHandler(nodes[i].fn, r.error).res
      ELSE /\ CallsOf(i) = <<>>
           /\ nodes[i].st = "fulfilled"
           /\ nodes[i].res = r

C6_CatchTag == C6_BoxCatchTag /\ C6_AsyncBoxCatchTag

C6_Witness ==
  /\ mode = "sync"
  /\ op.name = "catchTag"
  /\ op.tag = "NotFound"
  /\ prev = err(<< <<"_tag", "NotFound">>, <<"id", "123">> >>)
  /\ calls = << Call("handler", ArgE(prev.error)) >>
  /\ box = ok(0)

\* C7: in a chain of flatMap steps, once a step yields a Failure no later
\* flatMap callback is invoked, the chain ends holding exactly that first
\* Failure, and a final matchExhaustive runs exactly the handler registered
\* for the first Failure's tag.
C7_BoxShortCircuit ==
  mode = "sync" =>
    /\ (op.name = "flatMap" /\ isErr(prev)) => (calls = <<>> /\ box = prev)
    /\ (flatOnly /\ firstFail # NoResult) => box = firstFail
    /\ (flatOnly /\ firstFail # NoResult /\ MatchDone
          /\ TagOf(firstFail.error) \in op.cfg) =>
         calls = << Call(TagOf(firstFail.error), ArgE(firstFail.error)) >>

C7_AsyncBoxShortCircuit ==
  (mode = "async" /\ flatOnly) =>
    \A i \in Main :
      (nodes[i].st = "fulfilled" /\ isErr(nodes[i].res)) =>
        /\ \A j \in Main :
             j > i => /\ CallsOf(j) = <<>>
                      /\ nodes[j].st \in {"pending", "fulfilled"}
                      /\ nodes[j].st = "fulfilled" => nodes[j].res = nodes[i].res
        /\ (MatchDone /\ TagOf(nodes[i].res.error) \in op.cfg) =>
             calls = << Call(TagOf(nodes[i].res.error), ArgE(nodes[i].res.error)) >>

C7_ShortCircuit == C7_BoxShortCircuit /\ C7_AsyncBoxShortCircuit

\* A first flatMap step failed with NotFound, a second flatMap step followed,
\* and the final match ran the NotFound handler.
C7_Witness ==
  /\ mode = "async"
  /\ flatOnly
  /\ n = 2
  /\ isOk(nodes[1].res)
  /\ nodes[2].kind = "flatMap"
  /\ isErr(nodes[2].res)
  /\ \A i \in Main : nodes[i].st = "fulfilled"
  /\ MatchDone
  /\ isErr(prev)
  /\ calls = << Call("NotFound", ArgE(prev.error)) >>

\* C8: map(f) on a Success holding v invokes f exactly once, with v, and gives
\* Success(f(v)); on a Failure it does not invoke f and the Failure passes
\* through with the same error.  For AsyncBox the same holds of every map
\* promise whose callback has run.
C8_BoxMap ==
  (mode = "sync" /\ op.name = "map") =>
    IF isOk(prev)
    THEN /\ calls = << Call("fn", ArgV(prev.value)) >>
         /\ box = ok(ApplyMapFn(op.mapfn, prev.value))
    ELSE /\ calls = <<>>
         /\ box = prev

C8_AsyncBoxMap ==
  \A i \in 1..Len(nodes) :
    nodes[i].kind = "map" =>
      LET r == nodes[nodes[i].parent].res IN
      IF nodes[i].st = "pending" THEN CallsOf(i) = <<>>
      ELSE /\ nodes[i].st = "fulfilled"
           /\ IF isOk(r)
              THEN /\ CallsOf(i) = Logged(i, << Call("fn", ArgV(r.value)) >>)
                   /\ nodes[i].res = ok(ApplyMapFn(nodes[i].mapfn, r.value))
              ELSE /\ CallsOf(i) = <<>>
                   /\ nodes[i].res = r

C8_Map == C8_BoxMap /\ C8_AsyncBoxMap

\* An AsyncBox map step ran its callback on Success(1) and holds Success(2).
C8_Witness ==
  /\ mode = "async"
  /\ \E i \in 1..Len(nodes) :
       /\ nodes[i].kind = "map"
       /\ nodes[i].st = "fulfilled"
       /\ nodes[nodes[i].parent].res = ok(1)
       /\ nodes[i].res = ok(2)
       /\ CallsOf(i) = Logged(i, << Call("fn", ArgV(1)) >>)

\* C9: orElseTag(tag, fallback) turns a Failure whose tag equals tag into
\* Success(fallback) and passes every other Result through unchanged, so its
\* result is never a Failure carrying tag.
C9_OrElseTag ==
  (mode = "sync" /\ op.name = "orElseTag") =>
    /\ IF isErr(prev) /\ TagOf(prev.error) = op.tag
       THEN box = ok(op.val)
       ELSE box = prev
    /\ ~(isErr(box) /\ TagOf(box.error) = op.tag)
    /\ calls = <<>>

C9_Witness ==
  /\ mode = "sync"
  /\ op.name = "orElseTag"
  /\ isErr(prev)
  /\ TagOf(prev.error) = op.tag
  /\ box = ok(1)

\* C10: unwrap() on a Box holding a Failure throws an Error whose message is
\* "Unwrap called on Err: " followed by the JSON serialization of the error;
\* on a Success it returns the contained value.
C10_Unwrap ==
  (mode = "sync" /\ op.name = "unwrap") =>
    /\ isOk(prev) => outcome = ReturnValue(prev.value)
    /\ isErr(prev) =>
         outcome = Throw("Unwrap called on Err: " \o JSONstringify(prev.error))
    /\ prev = err(<< <<"_tag", "NotFound">>, <<"id", "123">> >>) =>
         outcome.str = "Unwrap called on Err: {\"_tag\":\"NotFound\",\"id\":\"123\"}"

C10_Witness ==
  /\ op.name = "unwrap"
  /\ prev = err(<< <<"_tag", "NotFound">>, <<"id", "123">> >>)
  /\ outcome.kind = "throw"

\* The promises fromPromise built (wrap builds them by fromPromise too).
FromPromiseNodes == {i \in 1..Len(nodes) : nodes[i].kind = "fromPromise"}

\* C11: AsyncBox.wrap(fn) without a config captures whatever fn raises into a
\* Failure holding the UnknownError variant, with the raised value as cause
\* and the Error's message or else String(cause) as message; wrap never
\* throws and the promise of the AsyncBox it returns is never rejected.
C11_WrapCaptures ==
  /\ ~(op.name = "wrap" /\ op.fn = NoFn /\ outcome.kind = "throw")
  /\ \A i \in FromPromiseNodes :
       (nodes[i].tag = "unknownError" /\ nodes[i].work.kind = "rejects") =>
         LET x == nodes[i].work.raised IN
         /\ nodes[i].st # "rejected"
         /\ nodes[i].st = "fulfilled" =>
              nodes[i].res = err(<< <<"_tag", "UnknownError">>, <<"cause", x>>,
                                    <<"message", IF InstanceofError(x) THEN MessageOf(x)
                                                 ELSE String(x)>> >>)

\* C12: fromPromise(work, onError): when work is fulfilled with v the AsyncBox
\* resolves to Success(v) and onError is not invoked; when work is rejected
\* with x, onError is invoked exactly once, with x, and the AsyncBox resolves
\* to Failure(onError(x)).
C12_FromPromise ==
  \A i \in FromPromiseNodes :
    LET w == nodes[i].work
        e == CallOnError(nodes[i].tag, w.raised) IN
    IF nodes[i].st = "pending" THEN CallsOf(i) = <<>>
    ELSE IF w.kind = "resolves"
    THEN /\ nodes[i].st = "fulfilled"
         /\ nodes[i].res = ok(w.value)
         /\ CallsOf(i) = <<>>
    ELSE /\ CallsOf(i) = Logged(i, << Call("onError", ArgX(w.raised)) >>)
         /\ e.kind = "return" =>
              (nodes[i].st = "fulfilled" /\ nodes[i].res = err(e.error))

\* A promise rejected with "oops" became Failure({ _tag: "NotFound", cause }).
C12_Witness ==
  \E i \in FromPromiseNodes :
    /\ nodes[i].tag = "tagged"
    /\ nodes[i].work = RejectsWith("\"oops\"")
    /\ nodes[i].st = "fulfilled"
    /\ nodes[i].res = err(<< <<"_tag", "NotFound">>, <<"cause", "\"oops\"">> >>)
    /\ Len(CallsOf(i)) = 1

\* The promises made by tap and tapErr.
TapNodes == {i \in 1..Len(nodes) : nodes[i].kind \in {"tap", "tapErr"}}

\* C13: no callback of the step chained after a tap / tapErr starts before
\* the promise the tap / tapErr callback returned has settled.
C13_TapAwaited ==
  \A j \in 1..Len(nodes) :
    (nodes[j].parent \in TapNodes /\ (nodes[j].st # "pending" \/ CallsOf(j) # <<>>)) =>
      /\ nodes[nodes[j].parent].cb # "pending"
      /\ nodes[nodes[j].parent].st \notin {"pending", "awaiting"}

\* An asynchronous tap callback ran and settled, and then the next map step's
\* callback ran.
C13_Witness ==
  \E j \in 1..Len(nodes) :
    /\ nodes[j].kind = "map"
    /\ nodes[j].parent \in TapNodes
    /\ nodes[nodes[j].parent].mapfn = "async"
    /\ nodes[nodes[j].parent].cb = "settled"
    /\ Len(CallsOf(nodes[j].parent)) = 1
    /\ Len(CallsOf(j)) = 1

\* The callbacks logged so far, without the promise that invoked them.
Strip(log) == [k \in 1..Len(log) |-> Call(log[k].fn, log[k].arg)]

IsPrefix(a, b) == Len(a) <= Len(b) /\ a = SubSeq(b, 1, Len(a))

\* C14: along one AsyncBox chain of map, mapErr, tap, tapErr, flatMap,
\* catchTag and catchAll steps, the continuation of a step runs only after the
\* promise of the step before it has settled (a step whose callback returned
\* an AsyncBox settles only once that AsyncBox's promise has), and callbacks
\* run in chain order.
C14_ChainOrder ==
  /\ \A j \in Main :
       (nodes[j].parent # 0 /\ nodes[j].st # "pending") =>
         nodes[nodes[j].parent].st \in {"fulfilled", "rejected"}
  /\ \A i \in Main :
       (nodes[i].inner # 0 /\ nodes[i].st = "fulfilled") =>
         /\ nodes[nodes[i].inner].st = "fulfilled"
         /\ nodes[i].res = nodes[nodes[i].inner].res
  /\ \A k, l \in 1..Len(alog) : k < l => alog[k].step < alog[l].step

\* A flatMap step whose callback returned an AsyncBox, then a tap step, both
\* settled, their callbacks logged in that order.
C14_Witness ==
  /\ Len(alog) = 2
  /\ nodes[alog[1].step].kind = "flatMap"
  /\ nodes[alog[1].step].inner # 0
  /\ nodes[alog[2].step].kind = "tap"
  /\ nodes[alog[2].step].parent = alog[1].step
  /\ nodes[alog[2].step].st = "fulfilled"

\* C15: the callback of a tap / tapErr step runs at most once for each call
\* of tap / tapErr, however many terminal methods are called on the AsyncBox
\* and however many chains are derived from it.
C15_TapAtMostOnce ==
  \A i \in TapNodes : Len(CallsOf(i)) <= 1

\* A second terminal method completed on the AsyncBox that tap returned, whose
\* callback ran once.
C15_Witness ==
  /\ Len(nodes) = 2
  /\ nodes[2].kind = "tap"
  /\ tip = 2
  /\ reuse = 1
  /\ outcome.kind = "return"
  /\ Len(CallsOf(2)) = 1

\* The terminal method of Box that corresponds to one of AsyncBox.
BoxTerminal(o, result) ==
  CASE o.name = "AsyncBox.matchExhaustive" -> Box_matchExhaustive(result, o.cfg)
    [] o.name = "AsyncBox.match"           -> Box_match(result)
    [] OTHER -> [out |-> Box_unwrapOr(result, o.val), calls |-> <<>>]

\* C16: an AsyncBox chain of map, mapErr, flatMap, catchTag and catchAll steps
\* resolves to the Result the Box chain built from the same Result with the
\* same callbacks holds, invokes the same callbacks with the same arguments
\* in the same order, and match, matchExhaustive and unwrapOr on it give what
\* they give on the Box.
C16_AsyncEquivalent ==
  mode = "async" =>
    /\ IsPrefix(Strip(alog), slog)
    /\ nodes[tip].st = "fulfilled" =>
         (nodes[tip].res = box /\ Strip(alog) = slog)
    /\ ( /\ op.name \in {"AsyncBox.matchExhaustive", "AsyncBox.match", "AsyncBox.unwrapOr"}
         /\ outcome.kind \in {"return", "throw"} ) =>
         /\ outcome = BoxTerminal(op, box).out
         /\ calls = BoxTerminal(op, box).calls

\* A mapErr step and a catchTag step whose handler ran, then match.
C16_Witness ==
  /\ mode = "async"
  /\ n = 2
  /\ Len(nodes) >= 2
  /\ Len(slog) = 2
  /\ Strip(alog) = slog
  /\ nodes[2].kind = "mapErr"
  /\ nodes[tip].kind = "catchTag"
  /\ op.name = "AsyncBox.match"
  /\ outcome = Box_match(box).out

\* C17: AsyncBox has orElseTag(tag, fallback): the call returns an AsyncBox
\* that resolves to Success(fallback) for a Failure with that tag and to the
\* same Result otherwise.
C17_AsyncOrElseTag ==
  op.name = "AsyncBox.orElseTag" =>
    /\ outcome.kind = "none"
    /\ nodes[tip].kind = "orElseTag"
    /\ nodes[tip].st = "fulfilled" =>
         nodes[tip].res = Box_orElseTag(nodes[nodes[tip].parent].res, op.tag, op.val).res

\* C18: the AsyncBox tap(fn) / tapErr(fn) returns resolves to the Result of
\* the AsyncBox it was called on, whatever fn returns; tap's callback runs
\* only on a Success and tapErr's only on a Failure.
C18_TapKeepsResult ==
  \A i \in TapNodes :
    LET r == nodes[nodes[i].parent].res
        runs == IF nodes[i].kind = "tap" THEN isOk(r) ELSE isErr(r) IN
    (nodes[nodes[i].parent].st = "fulfilled" /\ nodes[i].st # "pending") =>
      /\ Len(CallsOf(i)) = (IF runs THEN 1 ELSE 0)
      /\ nodes[i].st \in {"awaiting", "fulfilled"}
      /\ nodes[i].st = "fulfilled" => nodes[i].res = r

\* The Result the callback of promise i gives for the Result r.
AsyncCall(i, r) ==
  LET d == CASE nodes[i].kind = "map"      -> AsyncBox_map(r, nodes[i].mapfn)
             [] nodes[i].kind = "mapErr"   -> AsyncBox_mapErr(r, nodes[i].mapfn)
             [] nodes[i].kind = "flatMap"  -> AsyncBox_flatMap(r, nodes[i].fn)
             [] nodes[i].kind = "catchTag" -> AsyncBox_catchTag(r, nodes[i].tag, nodes[i].fn)
             [] OTHER                      -> AsyncBox_catchAll(r, nodes[i].fn)
  IN IF d.returns = "result" THEN d.res ELSE d.promise.res

\* Two promises made by the same method with the same arguments on the same
\* AsyncBox.
Twins(i, j) ==
  /\ i # j
  /\ nodes[i].parent # 0
  /\ nodes[i].parent = nodes[j].parent
  /\ nodes[i].kind = nodes[j].kind
  /\ nodes[i].tag = nodes[j].tag
  /\ nodes[i].fn = nodes[j].fn
  /\ nodes[i].mapfn = nodes[j].mapfn

\* C19: a chain method called twice with the same arguments on one wrapper
\* gives two wrappers holding equal Results, and the Result of the wrapper it
\* was called on is the same after either call as before the first.  For
\* AsyncBox: two promises made by the same method with the same arguments on
\* one AsyncBox resolve to equal Results, each the one the method gives for
\* the Result the AsyncBox holds.
C19_TwiceEqual ==
  /\ (mode = "sync" /\ op.name \in ChainMethods) =>
       /\ recv = prev
       /\ twin # NoResult => twin = box
  /\ mode = "async" =>
       /\ \A i, j \in 1..Len(nodes) :
            (Twins(i, j) /\ nodes[i].st = "fulfilled" /\ nodes[j].st = "fulfilled") =>
              nodes[i].res = nodes[j].res
       /\ \A j \in 1..Len(nodes) :
            (nodes[j].parent # 0 /\ nodes[j].st = "fulfilled") =>
              nodes[j].res = AsyncCall(j, nodes[nodes[j].parent].res)

\* map was called a second time with the same callback on a Box holding a
\* Success: the callback ran again, the two Boxes map returned hold the same
\* new Result and the Box map was called on holds its Result still.
C19_Witness ==
  /\ mode = "sync"
  /\ op.name = "map"
  /\ isOk(prev)
  /\ twin # NoResult
  /\ twin = box
  /\ box # prev
  /\ recv = prev
  /\ Len(calls) = 1

\* C20: every chain method of Box returns a Box instance other than the one
\* it was called on, also when the Result passes through unchanged.
C20_NewInstance ==
  (mode = "sync" /\ op.name \in ChainMethods) => inst # prevInst

\* Every operation of Box gives the same on the Results a and b.
SameUnderBox(a, b) ==
  /\ \A f \in MapFns : Box_map(a, f) = Box_map(b, f)
  /\ \A f \in MapErrFns : Box_mapErr(a, f) = Box_mapErr(b, f)
  /\ \A f \in FlatFns : Box_flatMap(a, f) = Box_flatMap(b, f)
  /\ \A t \in Tags, h \in Handlers : Box_catchTag(a, t, h) = Box_catchTag(b, t, h)
  /\ \A h \in Handlers : Box_catchAll(a, h) = Box_catchAll(b, h)
  /\ \A t \in Tags, v \in Values : Box_orElseTag(a, t, v) = Box_orElseTag(b, t, v)
  /\ \A c \in Configs : Box_matchExhaustive(a, c) = Box_matchExhaustive(b, c)
  /\ Box_match(a) = Box_match(b)
  /\ Box_unwrap(a) = Box_unwrap(b)
  /\ \A d \in Values : Box_unwrapOr(a, d) = Box_unwrapOr(b, d)
  /\ Box_toResult(a) = Box_toResult(b)

\* Every operation of AsyncBox gives the same on the Results a and b.
SameUnderAsyncBox(a, b) ==
  /\ \A f \in MapFns : AsyncBox_map(a, f) = AsyncBox_map(b, f)
  /\ \A f \in MapErrFns : AsyncBox_mapErr(a, f) = AsyncBox_mapErr(b, f)
  /\ \A f \in TapFns : AsyncBox_tap(a, f) = AsyncBox_tap(b, f)
  /\ \A f \in TapFns : AsyncBox_tapErr(a, f) = AsyncBox_tapErr(b, f)
  /\ \A f \in AsyncFlatFns : AsyncBox_flatMap(a, f) = AsyncBox_flatMap(b, f)
  /\ \A t \in DomainTags, h \in AsyncHandlers :
       AsyncBox_catchTag(a, t, h) = AsyncBox_catchTag(b, t, h)
  /\ \A h \in AsyncHandlers : AsyncBox_catchAll(a, h) = AsyncBox_catchAll(b, h)
  /\ \A c \in AsyncConfigs : AsyncBox_matchExhaustive(a, c) = AsyncBox_matchExhaustive(b, c)
  /\ AsyncBox_match(a) = AsyncBox_match(b)
  /\ \A d \in {0} : AsyncBox_unwrapOr(a, d) = AsyncBox_unwrapOr(b, d)
  /\ ReturnResult(a) = ReturnResult(b)

\* C21: the Box made by wrapping b.toResult() again, with Box.ok for a
\* Success and Box.err for a Failure, holds a Result equal to b's and every
\* operation gives on it what it gives on b; the AsyncBox made from the Result
\* of run() with AsyncBox.ok / AsyncBox.err is resolved to the Result the
\* first AsyncBox resolved to, and every operation gives the same on both.
C21_RoundTrip ==
  /\ (mode = "sync" /\ op.name = "rewrap") =>
       /\ Box_toResult(box) = Box_toResult(prev)
       /\ SameUnderBox(box, prev)
  /\ \A i \in 1..Len(nodes) :
       nodes[i].kind = "rewrap" =>
         /\ nodes[i].st = "fulfilled"
         /\ nodes[i].res = nodes[nodes[i].parent].res
         /\ SameUnderAsyncBox(nodes[i].res, nodes[nodes[i].parent].res)

\* An AsyncBox that resolved to a Failure after a flatMap step was wrapped
\* again from the Result of run().
C21_Witness ==
  /\ mode = "async"
  /\ op.name = "AsyncBox.rewrap"
  /\ nodes[tip].kind = "rewrap"
  /\ nodes[nodes[tip].parent].kind = "flatMap"
  /\ nodes[tip].res = err(<< <<"_tag", "NotFound">> >>)

\* C22: Box.fail(K, props) gives a Box holding a Failure whose error has
\* `_tag` equal to K, for every payload record props, and with no payload
\* the error has `_tag` as its only field.
C22_TagStamped ==
  (mode = "sync" /\ n = 0 /\ op.name = "fail") =>
    /\ isErr(box)
    /\ TagOf(box.error) = op.tag
    /\ Len(box.error) = 1 => box.error = << <<"_tag", op.tag>> >>

\* C23: for every Result built by ok or err, a Box's or a resolved
\* AsyncBox's, exactly one of isOk, isErr is true, whatever it holds (the
\* falsy value 0 included); isOk is true exactly of what ok builds and isErr
\* exactly of what err builds.
C23_ExactlyOne ==
  /\ \A v \in Values : isOk(ok(v)) /\ ~isErr(ok(v))
  /\ \A e \in Errors : isErr(err(e)) /\ ~isOk(err(e))
  /\ box # NoResult => (isOk(box) # isErr(box))
  /\ prev # NoResult => (isOk(prev) # isErr(prev))
  /\ \A i \in 1..Len(nodes) :
       nodes[i].st = "fulfilled" => (isOk(nodes[i].res) # isErr(nodes[i].res))

\* map ran its callback on a Success holding the falsy value 0.
C23_Witness ==
  /\ mode = "sync"
  /\ op.name = "map"
  /\ prev = ok(0)
  /\ isOk(prev)
  /\ ~isErr(prev)
  /\ calls = << Call("fn", ArgV(0)) >>

\* Promise j is promise i or was chained, through any number of steps, on it.
RECURSIVE Downstream(_, _)
Downstream(i, j) ==
  j = i \/ (nodes[j].parent # 0 /\ Downstream(i, nodes[j].parent))

\* C24: when the promise handed to fromPromise (or returned by the function
\* handed to wrap) is never settled, the promise of the AsyncBox and of every
\* step chained after it stays pending, none of their callbacks is invoked,
\* and the promise run, match, matchExhaustive or unwrapOr returned on that
\* chain is neither resolved nor rejected.
C24_NeverPending ==
  \A i \in FromPromiseNodes :
    nodes[i].work.kind = "never" =>
      \A j \in 1..Len(nodes) :
        Downstream(i, j) =>
          /\ nodes[j].st = "pending"
          /\ CallsOf(j) = <<>>
          /\ tip = j => outcome.kind \in {"none", "pending"}

\* match() was called on a map step and a tapErr step chained on a promise
\* that never settles.
C24_Witness ==
  /\ Len(nodes) = 3
  /\ nodes[1].work.kind = "never"
  /\ nodes[2].parent = 1
  /\ nodes[3].parent = 2
  /\ tip = 3
  /\ op.name = "AsyncBox.match"
  /\ outcome.kind = "pending"

\* Every source promise upstream of the current AsyncBox settles.
SourceSettles ==
  \A j \in 1..Len(nodes) :
    (Downstream(j, tip) /\ nodes[j].kind = "fromPromise") => Settles(nodes[j].work)

\* C25: when the source promise settles and every callback of the chain
\* returns, every promise or AsyncBox a callback returns settling, the promise
\* match, matchExhaustive or unwrapOr returned is eventually resolved with the
\* value (matchExhaustive: unless the table has no handler for the tag of the
\* Failure), and it is resolved only once every promise of the chain up to
\* the AsyncBox it was called on is fulfilled.
C25_Resolves ==
  /\ [](( /\ op.name \in {"AsyncBox.match", "AsyncBox.matchExhaustive", "AsyncBox.unwrapOr"}
          /\ outcome.kind = "return" )
        => \A j \in 1..Len(nodes) : Downstream(j, tip) => nodes[j].st = "fulfilled")
  /\ ( /\ op.name \in {"AsyncBox.match", "AsyncBox.matchExhaustive", "AsyncBox.unwrapOr"}
       /\ outcome.kind = "pending"
       /\ SourceSettles )
     ~> ( \/ outcome.kind = "return"
          \/ /\ op.name = "AsyncBox.matchExhaustive"
             /\ outcome.kind = "throw"
             /\ isErr(prev)
             /\ TagOf(prev.error) \notin op.cfg )

\* C26: a call of matchExhaustive whose handler table lacks the handler of a
\* tag of the error union E (such as {ok, NotFound} for E = {NotFound,
\* Unauthorized}) does not type-check.
C26_MissingTagRejected ==
  ( /\ mode = "sync"
    /\ op.name \in {"matchExhaustive", "Box.matchExhaustive"}
    /\ ~(E \subseteq op.cfg) )
  => ~typed

\* C27: matchExhaustive invokes the `ok` handler only for a Success, and then
\* with the success value; for a Failure, whatever its tag is, the `ok`
\* handler is not invoked.
C27_OkOnlyForSuccess ==
  MatchDone =>
    \A k \in 1..Len(calls) :
      calls[k].fn = "ok" => (isOk(prev) /\ calls[k].arg = ArgV(prev.value))

\* No callback the caller supplied to a step of the chain up to the current
\* AsyncBox throws or returns a promise that rejects.
NoUserRaise ==
  \A j \in 1..Len(nodes) :
    (Downstream(j, tip) /\ nodes[j].kind \in {"tap", "tapErr"}) =>
      nodes[j].mapfn # "asyncRejects"

\* C28: when no user callback throws or returns a rejecting promise, the
\* promise run(), unwrapOr() or match() returned is never rejected, also when
\* the promise handed to fromPromise or returned by wrap's function rejects.
C28_NeverRejects ==
  ( /\ mode = "async"
    /\ op.name \in {"AsyncBox.run", "AsyncBox.unwrapOr", "AsyncBox.match"}
    /\ NoUserRaise )
  => outcome.kind # "throw"

\* The callback of step j applies to the Result its AsyncBox resolved to.
Applicable(j) ==
  LET r == nodes[nodes[j].parent].res IN
  CASE nodes[j].kind \in {"map", "tap", "flatMap"} -> isOk(r)
    [] nodes[j].kind = "catchTag" -> isErr(r) /\ TagOf(r.error) = nodes[j].tag
    [] nodes[j].kind = "catchAll" -> isErr(r)
    [] OTHER -> FALSE

\* Promise j was made by a chain method on an AsyncBox that has resolved to
\* a Result its callback applies to.
StepApplies(j) ==
  IF nodes[j].parent = 0 THEN FALSE
  ELSE nodes[nodes[j].parent].st = "fulfilled" /\ Applicable(j)

\* The AsyncBox wrap returned has resolved if the promise wrap's function
\* returned is one that is fulfilled, and every callback that applies has
\* run, once.
EagerDone ==
  \A j \in 1..Len(nodes) :
    /\ (nodes[j].kind = "fromPromise" /\ nodes[j].work.kind = "resolves") =>
         nodes[j].st = "fulfilled"
    /\ StepApplies(j) => Len(CallsOf(j)) = 1

\* C29: with no terminal method ever called, the function given to wrap (as
\* fn or as `try`) is invoked exactly once, by wrap itself and by nothing later; once the
\* promise it returned is fulfilled the AsyncBox resolves; and the callback
\* of every map, tap, flatMap, catchTag and catchAll step that applies to the
\* Result of the AsyncBox it was chained on eventually runs, once, however
\* late the step was chained.
C29_EagerExecution ==
  /\ [](op.name = "wrap" =>
          /\ calls = << Call(IF op.fn = NoFn THEN "fnOrConfig" ELSE "try", NoArg) >>
          /\ \A k \in 1..Len(alog) : alog[k].fn \notin {"fnOrConfig", "try"})
  /\ [](outcome.kind = "none" \/ (outcome.kind = "throw" /\ nodes = <<>>))
  /\ []<>EagerDone

\* The promise wrap's function returned was fulfilled, a map step and a tap
\* step chained on it ran their callbacks, and no terminal method was called.
C29_Witness ==
  /\ op.name = "wrap"
  /\ outcome.kind = "none"
  /\ Len(nodes) = 3
  /\ nodes[1].work.kind = "resolves"
  /\ nodes[2].kind = "map"
  /\ nodes[3].kind = "tap"
  /\ nodes[3].parent = 2
  /\ Len(CallsOf(2)) = 1
  /\ Len(CallsOf(3)) = 1

\* What the callback of promise i does for the Result r.
AsyncStep(i, r) ==
  IF nodes[i].kind = "flatMap"
  THEN AsyncBox_flatMap(r, nodes[i].fn)
  ELSE AsyncBox_catchTag(r, nodes[i].tag, nodes[i].fn)

\* The Result promise j of a chain resolves to when its chain runs alone:
\* the Result of its source, taken through the steps up to j one after the
\* other.
RECURSIVE Alone(_)
Alone(j) ==
  IF nodes[j].kind = "source" THEN nodes[j].res
  ELSE IF nodes[j].kind = "fromPromise"
  THEN AsyncBox_fromPromise(nodes[j].work, nodes[j].tag).promise.res
  ELSE LET d == AsyncStep(j, Alone(nodes[j].parent)) IN
       IF d.returns = "result" THEN d.res ELSE d.promise.res

\* The callbacks the chain up to promise j invokes when it runs alone, in the
\* order it invokes them.
RECURSIVE AloneLog(_)
AloneLog(j) ==
  IF nodes[j].kind = "source" THEN <<>>
  ELSE IF nodes[j].kind = "fromPromise"
  THEN Logged(j, AsyncBox_fromPromise(nodes[j].work, nodes[j].tag).calls)
  ELSE AloneLog(nodes[j].parent)
       \o Logged(j, AsyncStep(j, Alone(nodes[j].parent)).calls)

\* Promise j and the promises it was chained on, directly or through steps.
RECURSIVE Upstream(_)
Upstream(j) ==
  IF nodes[j].parent = 0 THEN {j} ELSE {j} \cup Upstream(nodes[j].parent)

\* The callbacks the chain up to promise j has invoked so far, in order.
OwnLog(j) ==
  LET u == Upstream(j) IN SelectSeq(alog, LAMBDA c : c.step \in u)

\* C30: with two independently constructed AsyncBox chains whose callbacks
\* run in any order, every promise of either chain resolves to the Result it
\* resolves to when its chain runs alone, and the chain's own callbacks run
\* in the order, and with the arguments, they run in when it runs alone.
C30_NoInterference ==
  \A j \in Main \cup {2} :
    LET own == OwnLog(j)
        alone == AloneLog(j) IN
    /\ nodes[j].st \in {"pending", "waiting", "fulfilled"}
    /\ IsPrefix(own, alone)
    /\ nodes[j].st = "fulfilled" =>
         /\ nodes[j].res = Alone(j)
         /\ own = alone

\* A flatMap step was chained on the first AsyncBox and then a catchTag step
\* on the second; the second chain's callbacks ran before the first chain's,
\* and both chains have resolved.
C30_Witness ==
  /\ Len(nodes) >= 4
  /\ nodes[3].kind = "flatMap"
  /\ nodes[3].parent = 1
  /\ nodes[4].kind = "catchTag"
  /\ nodes[4].parent = 2
  /\ nodes[3].st = "fulfilled"
  /\ nodes[4].st = "fulfilled"
  /\ Len(alog) = 3
  /\ alog[1].step = 2
  /\ alog[2].step = 4
  /\ alog[3].step = 3

====
